---- MODULE Spec2Model ----
(***************************************************************************)
(* State-machine model of the nevr-agent frame transport:                  *)
(*   - the collector-side StreamHub (internal/api/jwt_middleware.go):      *)
(*     per-match ring buffer + index map, subscribers, seek, pause/play;   *)
(*   - the producer-side WebSocketWriter                                   *)
(*     (internal/agent/writer_websocket.go): outgoing channel, background  *)
(*     read/write/reconnect goroutines, disk buffer and its drain.         *)
(* The two halves share no state; SpecHub and SpecLink each move one half. *)
(***************************************************************************)
EXTENDS Integers, Sequences, FiniteSets, Bags, TLC

(* ------------------------------ bounds -------------------------------- *)
\* maxFrames is 10000 in the source (jwt_middleware.go:287,338); the model
\* runs the same code with a small ring so that evictions happen.
maxFrames == 2
\* capacity of a subscriber's send channel (256 in the source, line 216)
SendCap == 1
\* number of BroadcastFrame calls explored
MaxBroadcasts == 3

\* capacity of the writer's outgoing channel (memoryBufferSize, 1000 in the
\* source, writer_websocket.go:28)
memoryBufferSize == 2
\* frames accepted by WriteFrame
MaxSends == 2
\* successful dials (each starts a read, a write and a reconnect goroutine)
MaxConnects == 3
\* failed dials
MaxFailedDials == 1
\* connections dropped by the network
MaxDrops == 2
\* failed dials when the reconnect delay is followed up to its maximum
MaxBackoffDials == 7
\* frames accepted, and connections made, by a link that is then closed
MaxCloseSends == 1
MaxCloseConnects == 2
\* seconds by which the clock advances in one step
TickSeconds == 3

\* seconds; writer_websocket.go:29, 23, 24
diskBufferThreshold == 3
initialReconnectDelay == 1
maxReconnectDelay == 30
reconnectBackoffMult == 2

\* the frame rate of a session that asks for none, and the fps values and
\* framerate commands tried
defaultFrameRate == 30
NoFps == -1
\* the hub's configured maximum frame rate (max-stream-hz)
maxFrameRate == 20
\* the fps query parameters and the rates of framerate commands tried
FpsParams == {NoFps, 0, 10, 50}
Rates == {0, 10, 20, 50}

\* the download requests for the echoreplay of one match
Reqs == {"r1", "r2", "r3"}
\* conversion jobs started for that match
MaxJobs == 2

NoReq == [pc |-> "idle", job |-> 0, answer |-> "none"]

\* the goroutines that call into the hub at the same time
Callers == {"c1", "c2", "c3"}

NoCall == [op |-> "none", at |-> 0]

MatchIDs == {"m1"}
Subs == {"s1", "s2"}

VARIABLES
  \* ---- StreamHub ----
  matches,      \* set of matchIDs registered in h.matches
  frames,       \* [matchID -> sequence of frames]   (matchStream.frames)
  frameIndex,   \* [matchID -> map frame index -> 0-based position]
  subscribers,  \* [matchID -> set of subscribers]
  subStatus,    \* [sub -> "none" | "live" | "gone"] (connection handler)
  subMatch,     \* [sub -> matchID]
  paused,       \* [sub -> BOOLEAN]
  send,         \* [sub -> sequence of messages]     (streamSubscriber.send)
  frameRate,    \* [sub -> frameRate of the session]
  pushing,      \* the BroadcastFrame calls that have stored their frame and
                \* not yet pushed it: matchID, frame, subscribers copied
  pushedLive,   \* history: [sub -> arrival number of the last live frame
                \* put into its send channel]
  writePumps,   \* the sessions whose writePump goroutine is running
  conversions,  \* h.conversions[matchID]: the number of the job, 0 if no entry
  jobs,         \* the conversion jobs started so far: [state, err]
  timers,       \* jobs whose time.AfterFunc has not fired
  cached,       \* the cache holds an .echoreplay not older than the capture
  requests,     \* [request -> its position in serveEchoReplay, the job it
                \* took, what it answered]
  lockCalls,    \* [caller -> the hub operation it is in and the index of its
                \* next lock instruction], op "none" when it is in none
  creating,     \* a BroadcastFrame call that found no stream and is about
                \* to create one: its matchID and frame index
  done,         \* [sub -> BOOLEAN]                  (done channel closed)
  \* ---- history (not program state) ----
  broadcasts,   \* [matchID -> every frame passed to BroadcastFrame, in order]
  pausedSeen,   \* [sub -> payloads broadcast to its match while it was paused]
  last,         \* the operation that ran last and what it did
  \* ---- WebSocketWriter ----
  stopped,         \* w.stopped
  conn,            \* w.conn: 0 is nil, k is the connection of the k-th dial
  connected,       \* w.connected
  sinceDisconnect, \* time.Since(w.disconnectedAt) in whole seconds, capped at
                   \* diskBufferThreshold + 1; -1 while disconnectedAt is zero
  outgoingCh,      \* w.outgoingCh: sequence of frames
  reconnectCh,     \* w.reconnectCh holds a signal
  diskBufferFile,  \* w.diskBufferFile: "nil", "open" or "closed" handle
  diskBufferPath,  \* w.diskBufferPath is not empty (the file exists)
  usingDiskBuffer, \* w.usingDiskBuffer
  diskFile,        \* the lines of the file at diskBufferPath
  readLoop,        \* readLoop goroutines: how many read the current, how
                   \* many a replaced connection
  writeLoop,       \* writeLoop goroutines: how many wait in select, and the
                   \* locals of those that hold a frame
  reconnectLoop,   \* reconnectLoop goroutines: the bag of the delays of
                   \* those that wait for the signal, and of those retrying
  drain,           \* bag of the drainDiskBuffer goroutines' locals
  cleanups,        \* cleanupDiskBuffer goroutines started by Close and not
                   \* yet run
  mu,              \* w.mu: who holds it across a step that takes time
  inWriteFrame,    \* the producer is inside WriteFrame, at w.mu.Lock
  \* ---- network and collector ----
  connAlive,       \* the connection w.conn is up end to end
  connects,        \* successful dials so far
  failedDials,     \* failed dials so far
  drops,           \* connections dropped by the network so far
  received,        \* frames the collector received, in order
  \* ---- history (not program state) ----
  nsent,           \* frames accepted by WriteFrame; frame n is the n-th accepted
  sentTag,         \* [frame -> the link's state when WriteFrame accepted it]
  sinceDown,       \* seconds since w.connected last went from true to false,
                   \* capped like sinceDisconnect; -1 while connected
  everDisk,        \* usingDiskBuffer has been true at some time
  sendResult,      \* what the last WriteFrame call returned
  connectResult,   \* what the last Connect call did
  spillAtReconnect \* the Spill Queue at the last successful reconnect

hubVars == <<matches, frames, frameIndex, subscribers, subStatus, subMatch,
             paused, send, done, frameRate>>
hubHist == <<broadcasts, pausedSeen, last, pushedLive>>
hubCalls == <<creating, pushing>>
convVars == <<conversions, jobs, timers, cached, requests>>
hubTasks == <<writePumps, lockCalls, convVars>>

linkVars == <<stopped, conn, connected, sinceDisconnect, outgoingCh,
              reconnectCh, diskBufferFile, diskBufferPath, usingDiskBuffer,
              diskFile, readLoop, writeLoop, reconnectLoop, drain>>
closeVars == <<cleanups, sendResult, connectResult>>
lockVars == <<mu, inWriteFrame>>
netVars == <<connAlive, connects, failedDials, drops, received>>
linkHist == <<nsent, sentTag, sinceDown, everDisk, spillAtReconnect>>
hubSide == <<hubVars, hubHist, hubCalls, hubTasks>>
linkSide == <<linkVars, closeVars, lockVars, netVars, linkHist>>
vars == <<hubSide, linkSide>>

(* ------------------------------ frames -------------------------------- *)
\* A frame: its frame index and its payload.  Payloads are the arrival
\* number, so two frames are never equal.
Frame(idx, n) == [frameIndex |-> idx, payload |-> n]

\* StreamMessage{Type: "frame", Payload: <frame JSON>}.  via is history, not
\* on the wire: which path built the message ("live": BroadcastFrame,
\* "seek": handleSeek).
FrameMsg(f, via) == [type |-> "frame", frame |-> f, via |-> via]
MatchEndedMsg == [type |-> "match_ended"]

NoOp == [op |-> "none"]

(* --------------------------- ring buffer ------------------------------ *)
\* Go slices are 0-based: position p of the slice is element p+1 here.
At(ring, pos) == ring[pos + 1]

MapDelete(map, k) == [x \in (DOMAIN map) \ {k} |-> map[x]]
MapPut(map, k, v) == [x \in (DOMAIN map) \cup {k} |-> IF x = k THEN v ELSE map[x]]

\* mutant: eviction drops the newest frame instead of the oldest
StoreRingKeepOldest(ring, f) ==
  IF Len(ring) >= maxFrames THEN Append(SubSeq(ring, 1, Len(ring) - 1), f)
  ELSE Append(ring, f)

\* BroadcastFrame lines 346-355: the ring after storing frame f
StoreRing(ring, f) ==
  IF Len(ring) >= maxFrames THEN Append(Tail(ring), f)
  ELSE Append(ring, f)

\* mutant: after an eviction the position is not taken again from the
\* shortened ring
StoreIndexOldLen(ring, map, f) ==
  IF Len(ring) >= maxFrames
  THEN MapPut(MapDelete(map, ring[1].frameIndex), f.frameIndex, Len(ring))
  ELSE MapPut(map, f.frameIndex, Len(ring))

\* BroadcastFrame lines 347-356: the index map after storing frame f.
\* On eviction only the evicted frame's key is deleted; the positions
\* recorded for the frames that moved down one slot are left as they were.
StoreIndex(ring, map, f) ==
  IF Len(ring) >= maxFrames
  THEN MapPut(MapDelete(map, ring[1].frameIndex), f.frameIndex, Len(ring) - 1)
  ELSE MapPut(map, f.frameIndex, Len(ring))

\* mutant: the send ignores the capacity of the channel
TrySendAlways(q, m) == Append(q, m)

\* non-blocking send on a subscriber channel: select { case ch <- m: default: }
TrySend(q, m) == IF Len(q) < SendCap THEN Append(q, m) ELSE q

(* ------------------------------ StreamHub ------------------------------ *)
EmptyMap == [x \in {} |-> 0]

\* no BroadcastFrame call is between its lookup and its creation of a stream
NoCreate == [match |-> "", frameIndex |-> 0]

HubInit ==
  /\ matches = {}
  /\ frames = [m \in MatchIDs |-> <<>>]
  /\ frameIndex = [m \in MatchIDs |-> EmptyMap]
  /\ subscribers = [m \in MatchIDs |-> {}]
  /\ subStatus = [s \in Subs |-> "none"]
  /\ subMatch = [s \in Subs |-> "m1"]
  /\ paused = [s \in Subs |-> FALSE]
  /\ send = [s \in Subs |-> <<>>]
  /\ done = [s \in Subs |-> FALSE]
  /\ broadcasts = [m \in MatchIDs |-> <<>>]
  /\ pausedSeen = [s \in Subs |-> {}]
  /\ last = NoOp
  /\ creating = NoCreate
  /\ frameRate = [s \in Subs |-> 0]
  /\ pushing = {}
  /\ writePumps = {}
  /\ lockCalls = [c \in Callers |-> NoCall]
  /\ conversions = 0
  /\ jobs = <<>>
  /\ timers = {}
  /\ cached = FALSE
  /\ requests = [r \in Reqs |-> NoReq]
  /\ pushedLive = [s \in Subs |-> 0]

\* handleStreamConnection lines 195-203: the frame rate of a new session;
\* fps is the number in the fps query parameter, NoFps when there is none
\* or it is not a number
InitialRate(fps) ==
  IF fps > 0
  THEN IF fps > maxFrameRate THEN maxFrameRate ELSE fps
  ELSE defaultFrameRate

\* handleStreamConnection lines 190-221 with subscribe lines 276-298: a new
\* subscriber (not paused, empty send channel) joins the stream of matchID,
\* which is created when the registry has none.
handleStreamConnectionFps(s, m, fps) ==
  /\ subStatus[s] = "none"
  /\ frameRate' = [frameRate EXCEPT ![s] = InitialRate(fps)]
  /\ subStatus' = [subStatus EXCEPT ![s] = "live"]
  /\ subMatch' = [subMatch EXCEPT ![s] = m]
  /\ matches' = matches \cup {m}
  /\ subscribers' = [subscribers EXCEPT ![m] = @ \cup {s}]
  /\ last' = [op |-> "subscribe", sub |-> s]
  /\ UNCHANGED <<frames, frameIndex, paused, send, done,
                 broadcasts, pausedSeen>>
  /\ writePumps' = writePumps \cup {s}
  /\ UNCHANGED <<hubCalls, pushedLive, lockCalls, convVars, linkSide>>

\* a connection without fps query parameter
handleStreamConnection(s, m) == handleStreamConnectionFps(s, m, NoFps)

\* mutant: unsubscribe does not close the done channel
DoneLeftOpen == FALSE

\* unsubscribe line 319: close(sub.done)
DoneAfterUnsubscribe == TRUE

\* mutant: unsubscribing empties the subscriber set of the stream
RemoveAllSubscribers(set, s) == {}

\* unsubscribe line 315: delete(stream.subscribers, sub)
RemoveSubscriber(set, s) == set \ {s}

\* mutant: the stream that its last subscriber leaves is taken out of the
\* registry
StreamsDropEmpty(m, left) ==
  IF m \in matches /\ left = {} THEN matches \ {m} ELSE matches

\* unsubscribe lines 315-318: the registry after a session has left stream
\* m with the subscribers left; an empty stream is logged and kept
StreamsAfterLeave(m, left) == matches

\* readPump returns on a read error (line 478); the deferred unsubscribe
\* (lines 301-322) removes the subscriber and closes done.
unsubscribe(s) ==
  /\ subStatus[s] = "live"
  /\ matches' = StreamsAfterLeave(subMatch[s],
                                   RemoveSubscriber(subscribers[subMatch[s]], s))
  /\ subStatus' = [subStatus EXCEPT ![s] = "gone"]
  /\ subscribers' = [subscribers EXCEPT ![subMatch[s]] =
                       IF subMatch[s] \in matches
                       THEN RemoveSubscriber(@, s) ELSE @]
  /\ done' = [done EXCEPT ![s] = DoneAfterUnsubscribe]
  /\ last' = [op |-> "unsubscribe", sub |-> s]
  /\ UNCHANGED <<frames, frameIndex, subMatch, paused, send,
                 broadcasts, pausedSeen>>
  /\ UNCHANGED <<hubCalls, pushedLive, frameRate, linkSide, hubTasks>>

\* mutant: the fan-out ignores the paused flag
PushAllowedIgnoringPause(s) == TRUE

\* BroadcastFrame line 389: the guard of the push to one subscriber
PushAllowed(s) == ~paused[s]

\* BroadcastFrame lines 325-398
BroadcastFrame(m, idx) ==
  /\ Len(broadcasts[m]) < MaxBroadcasts
  /\ LET f == Frame(idx, Len(broadcasts[m]) + 1)
         subs == subscribers[m]
     IN
     /\ matches' = matches \cup {m}
     /\ frames' = [frames EXCEPT ![m] = StoreRing(@, f)]
     /\ frameIndex' = [frameIndex EXCEPT ![m] = StoreIndex(frames[m], @, f)]
     /\ send' = [s \in Subs |->
                   IF s \in subs /\ PushAllowed(s)
                   THEN TrySend(send[s], FrameMsg(f, "live")) ELSE send[s]]
     /\ broadcasts' = [broadcasts EXCEPT ![m] = Append(@, f)]
     /\ pausedSeen' = [s \in Subs |->
                         IF s \in subs /\ paused[s]
                         THEN pausedSeen[s] \cup {f.payload} ELSE pausedSeen[s]]
     /\ last' = [op |-> "broadcast", match |-> m, frame |-> f,
                 room |-> {s \in subs : Len(send[s]) < SendCap},
                 pushed |-> {s \in Subs : send'[s] # send[s]}]
  /\ UNCHANGED <<subscribers, subStatus, subMatch, paused, done>>
  /\ pushedLive' = [s \in Subs |->
                      IF send'[s] # send[s]
                      THEN Len(broadcasts[m]) + 1 ELSE pushedLive[s]]
  /\ UNCHANGED <<hubCalls, frameRate, linkSide, hubTasks>>

\* BroadcastFrame lines 326-330: the lookup under h.mu.RLock finds no stream
\* for matchID, and the read lock is released
BroadcastLookup(m, idx) ==
  /\ Len(broadcasts[m]) < MaxBroadcasts
  /\ creating = NoCreate
  /\ m \notin matches
  /\ creating' = [match |-> m, frameIndex |-> idx]
  /\ UNCHANGED <<hubVars, hubHist, pushing, linkSide, hubTasks>>

\* BroadcastFrame lines 331-398 after a lookup that found no stream: a new
\* stream is put into h.matches[matchID] without a second lookup, replacing
\* the stream a subscribe may have registered since; the frame is stored in
\* the new stream and pushed to its subscribers, of which there are none
BroadcastCreate ==
  /\ creating # NoCreate
  /\ LET m == creating.match
         f == Frame(creating.frameIndex, Len(broadcasts[m]) + 1)
     IN
     /\ matches' = matches \cup {m}
     /\ subscribers' = [subscribers EXCEPT ![m] = {}]
     /\ frames' = [frames EXCEPT ![m] = StoreRing(<<>>, f)]
     /\ frameIndex' = [frameIndex EXCEPT ![m] = StoreIndex(<<>>, EmptyMap, f)]
     /\ broadcasts' = [broadcasts EXCEPT ![m] = Append(@, f)]
     /\ last' = [op |-> "broadcast", match |-> m, frame |-> f,
                 room |-> {}, pushed |-> {}]
  /\ creating' = NoCreate
  /\ UNCHANGED <<subStatus, subMatch, paused, send, done, pausedSeen,
                 frameRate, pushing, pushedLive>>
  /\ UNCHANGED <<linkSide, hubTasks>>

\* BroadcastFrame lines 326-363 for a stream that exists: under stream.mu
\* the frame is stored in the ring and the subscriber set copied; the lock
\* is released before the frame is pushed
BroadcastStore(m, idx) ==
  /\ Len(broadcasts[m]) < MaxBroadcasts
  /\ m \in matches
  /\ LET f == Frame(idx, Len(broadcasts[m]) + 1) IN
     /\ frames' = [frames EXCEPT ![m] = StoreRing(@, f)]
     /\ frameIndex' = [frameIndex EXCEPT ![m] = StoreIndex(frames[m], @, f)]
     /\ broadcasts' = [broadcasts EXCEPT ![m] = Append(@, f)]
     /\ pushing' = pushing \cup {[match |-> m, frame |-> f,
                                  subs |-> subscribers[m]]}
     /\ pausedSeen' = [s \in Subs |->
                         IF s \in subscribers[m] /\ paused[s]
                         THEN pausedSeen[s] \cup {f.payload} ELSE pausedSeen[s]]
     /\ last' = [op |-> "store", match |-> m, frame |-> f]
  /\ UNCHANGED <<matches, subscribers, subStatus, subMatch, paused, send,
                 done, frameRate, pushedLive, creating>>
  /\ UNCHANGED <<linkSide, hubTasks>>

\* BroadcastFrame lines 365-397: the call that stored frame p.frame pushes
\* it to the subscribers it copied
BroadcastPush(p) ==
  /\ p \in pushing
  /\ pushing' = pushing \ {p}
  /\ send' = [s \in Subs |->
                IF s \in p.subs /\ PushAllowed(s)
                THEN TrySend(send[s], FrameMsg(p.frame, "live")) ELSE send[s]]
  /\ pushedLive' = [s \in Subs |->
                      IF send'[s] # send[s]
                      THEN p.frame.payload ELSE pushedLive[s]]
  /\ last' = [op |-> "broadcast", match |-> p.match, frame |-> p.frame,
              room |-> {s \in p.subs : Len(send[s]) < SendCap},
              pushed |-> {s \in Subs : send'[s] # send[s]}]
  /\ UNCHANGED <<matches, frames, frameIndex, subscribers, subStatus,
                 subMatch, paused, done, frameRate, broadcasts, pausedSeen,
                 creating>>
  /\ UNCHANGED <<linkSide, hubTasks>>

\* mutant: CloseMatch skips the paused subscribers, as BroadcastFrame does
CloseTargetsUnpaused(m) == {s \in subscribers[m] : ~paused[s]}

\* CloseMatch lines 415-423: the subscribers the match_ended message is
\* pushed to
CloseTargets(m) == subscribers[m]

\* CloseMatch lines 401-426
CloseMatch(m) ==
  /\ m \in matches
  /\ send' = [s \in Subs |->
                IF s \in CloseTargets(m)
                THEN TrySend(send[s], MatchEndedMsg) ELSE send[s]]
  /\ last' = [op |-> "close_match", match |-> m]
  /\ UNCHANGED <<matches, frames, frameIndex, subscribers, subStatus,
                 subMatch, paused, done, broadcasts, pausedSeen>>
  /\ UNCHANGED <<hubCalls, pushedLive, frameRate, linkSide, hubTasks>>

\* handleControl lines 498-517, commands pause and play
handleControl(s, cmd) ==
  /\ subStatus[s] = "live"
  /\ paused' = [paused EXCEPT ![s] =
                  IF cmd = "pause" THEN TRUE
                  ELSE IF cmd = "play" THEN FALSE ELSE @]
  /\ last' = [op |-> "control", sub |-> s, cmd |-> cmd]
  /\ UNCHANGED <<matches, frames, frameIndex, subscribers, subStatus,
                 subMatch, send, done, broadcasts, pausedSeen>>
  /\ UNCHANGED <<hubCalls, pushedLive, frameRate, linkSide, hubTasks>>

\* mutant: a seek that finds no frame under the index resolves to the
\* newest frame of the ring
SeekTargetNearest(m, idx) ==
  IF m \in matches /\ idx > 0 /\ idx \in DOMAIN frameIndex[m]
  THEN <<At(frames[m], frameIndex[m][idx])>>
  ELSE IF m \in matches /\ frames[m] # <<>>
       THEN <<frames[m][Len(frames[m])]>> ELSE <<>>

\* handleSeek lines 537-547: the frame the seek resolves to, as a sequence
\* of zero or one frame
SeekTarget(m, idx) ==
  IF m \in matches /\ idx > 0 /\ idx \in DOMAIN frameIndex[m]
  THEN <<At(frames[m], frameIndex[m][idx])>>
  ELSE <<>>

\* handleControl line 513: the frame rate after a framerate command
ControlRate(cur, rate) ==
  IF rate > 0 /\ rate <= maxFrameRate THEN rate ELSE cur

\* handleControl lines 498-517, command "framerate"
handleControlFrameRate(s, rate) ==
  /\ subStatus[s] = "live"
  /\ frameRate' = [frameRate EXCEPT ![s] = ControlRate(@, rate)]
  /\ last' = [op |-> "framerate", sub |-> s, arg |-> rate]
  /\ UNCHANGED <<matches, frames, frameIndex, subscribers, subStatus,
                 subMatch, paused, send, done, broadcasts, pausedSeen,
                 pushedLive, hubCalls>>
  /\ UNCHANGED <<linkSide, hubTasks>>

\* handleSeek lines 520-565
handleSeek(s, idx) ==
  /\ subStatus[s] = "live"
  /\ LET target == SeekTarget(subMatch[s], idx) IN
     /\ send' = [send EXCEPT ![s] =
                   IF target # <<>> THEN TrySend(@, FrameMsg(target[1], "seek"))
                   ELSE @]
     /\ last' = [op |-> "seek", sub |-> s, arg |-> idx,
                 room |-> Len(send[s]) < SendCap,
                 pushed |-> SubSeq(send'[s], Len(send[s]) + 1, Len(send'[s]))]
  /\ UNCHANGED <<matches, frames, frameIndex, subscribers, subStatus,
                 subMatch, paused, done, broadcasts, pausedSeen>>
  /\ UNCHANGED <<hubCalls, pushedLive, frameRate, linkSide, hubTasks>>

\* An inbound message of a subscriber: json is whether the bytes decode as
\* a StreamMessage, type its type field, ok whether its payload decodes as
\* the request of that type, command and arg what the payload carries (for
\* a payload that does not decode: what a lenient decoder would have read)
Msg(json, type, ok, command, arg) ==
  [json |-> json, type |-> type, ok |-> ok, command |-> command, arg |-> arg]

Messages ==
  { Msg(FALSE, "control", TRUE, "pause", 0),
    Msg(TRUE, "control", FALSE, "pause", 0),
    Msg(TRUE, "control", FALSE, "framerate", 10),
    Msg(TRUE, "control", TRUE, "pause", 0),
    Msg(TRUE, "control", TRUE, "play", 0),
    Msg(TRUE, "control", TRUE, "framerate", 10),
    Msg(TRUE, "control", TRUE, "stop", 10),
    Msg(TRUE, "seek", FALSE, "", 1),
    Msg(TRUE, "seek", TRUE, "", 1),
    Msg(TRUE, "hello", TRUE, "pause", 1) }

\* mutant: the decoding errors are not looked at
HandlerUnchecked(msg) ==
  IF msg.type = "control"
  THEN IF msg.command \in {"pause", "play", "framerate"}
       THEN msg.command ELSE "ignore"
  ELSE IF msg.type = "seek" THEN "seek" ELSE "ignore"

\* readPump lines 481-493, handleControl lines 499-516, handleSeek lines
\* 521-524: what is done with an inbound message
Handler(msg) ==
  IF ~msg.json THEN "ignore"
  ELSE IF msg.type = "control"
       THEN IF ~msg.ok THEN "ignore"
            ELSE IF msg.command \in {"pause", "play", "framerate"}
                 THEN msg.command ELSE "ignore"
       ELSE IF msg.type = "seek"
            THEN IF msg.ok THEN "seek" ELSE "ignore"
            ELSE "ignore"

\* readPump lines 472-494 with handleControl and handleSeek: one inbound
\* message is read and handled; the loop goes on to the next
readPump(s, msg) ==
  /\ subStatus[s] = "live"
  /\ LET h == Handler(msg)
         target == IF h = "seek" THEN SeekTarget(subMatch[s], msg.arg)
                   ELSE <<>> IN
     /\ paused' = [paused EXCEPT ![s] =
                     IF h = "pause" THEN TRUE
                     ELSE IF h = "play" THEN FALSE ELSE @]
     /\ frameRate' = [frameRate EXCEPT ![s] =
                        IF h = "framerate" THEN ControlRate(@, msg.arg) ELSE @]
     /\ send' = [send EXCEPT ![s] =
                   IF target # <<>> THEN TrySend(@, FrameMsg(target[1], "seek"))
                   ELSE @]
  /\ last' = [op |-> "read", sub |-> s, msg |-> msg]
  /\ UNCHANGED <<matches, frames, frameIndex, subscribers, subStatus,
                 subMatch, done, broadcasts, pausedSeen, pushedLive,
                 hubCalls>>
  /\ UNCHANGED <<linkSide, hubTasks>>

\* writePump lines 440-450: one message taken from the send channel and
\* written to the connection
writePump(s) ==
  /\ subStatus[s] = "live"
  /\ s \in writePumps
  /\ send[s] # <<>>
  /\ send' = [send EXCEPT ![s] = Tail(@)]
  /\ last' = [op |-> "write", sub |-> s, msg |-> Head(send[s])]
  /\ UNCHANGED <<matches, frames, frameIndex, subscribers, subStatus,
                 subMatch, paused, done, broadcasts, pausedSeen>>
  /\ UNCHANGED <<hubCalls, pushedLive, frameRate, linkSide, hubTasks>>

\* writePump lines 438-439 and 432-435: the pump finds done closed, returns
\* and closes the connection
writePumpDone(s) ==
  /\ s \in writePumps
  /\ done[s]
  /\ writePumps' = writePumps \ {s}
  /\ last' = [op |-> "pump_done", sub |-> s]
  /\ UNCHANGED <<hubVars, broadcasts, pausedSeen, pushedLive, hubCalls,
                 lockCalls, convVars>>
  /\ UNCHANGED linkSide

\* writePump lines 446-457 and 432-435: a write of a message or of a ping
\* fails; the pump returns and closes the connection, on which the
\* readPump's read then fails
writePumpFail(s) ==
  /\ s \in writePumps
  /\ subStatus[s] = "live"
  /\ writePumps' = writePumps \ {s}
  /\ send' = [send EXCEPT ![s] = IF @ = <<>> THEN @ ELSE Tail(@)]
  /\ last' = [op |-> "pump_failed", sub |-> s]
  /\ UNCHANGED <<matches, frames, frameIndex, subscribers, subStatus,
                 subMatch, paused, done, frameRate, broadcasts, pausedSeen,
                 pushedLive, hubCalls, lockCalls, convVars>>
  /\ UNCHANGED linkSide

(* ------------------------- the locks of the hub ----------------------- *)
\* The hub operations as the sequences of their lock instructions, for one
\* stream and one subscriber: h.mu is the registry lock, stream.mu the
\* lock of the stream, sub.mu that of the subscriber; push is the
\* select { case sub.send <- msg: default: } made at that point.
HubOps == {"subscribe", "unsubscribe", "unsubscribe_unknown", "broadcast",
           "broadcast_new", "close_match", "close_unknown", "seek",
           "seek_unknown", "control", "list"}

\* the lock instructions of the operations other than unsubscribe
ProgramOf(op) ==
  CASE op = "subscribe" ->
         << <<"Lock", "h.mu">>, <<"Lock", "stream.mu">>,
            <<"Unlock", "stream.mu">>, <<"Unlock", "h.mu">> >>
    [] op = "unsubscribe_unknown" ->
         << <<"Lock", "h.mu">>, <<"Unlock", "h.mu">> >>
    [] op = "broadcast" ->
         << <<"RLock", "h.mu">>, <<"RUnlock", "h.mu">>,
            <<"Lock", "stream.mu">>, <<"Unlock", "stream.mu">>,
            <<"Lock", "sub.mu">>, <<"push", "sub.mu">>,
            <<"Unlock", "sub.mu">> >>
    [] op = "broadcast_new" ->
         << <<"RLock", "h.mu">>, <<"RUnlock", "h.mu">>,
            <<"Lock", "h.mu">>, <<"Unlock", "h.mu">>,
            <<"Lock", "stream.mu">>, <<"Unlock", "stream.mu">> >>
    [] op = "close_match" ->
         << <<"Lock", "h.mu">>, <<"Unlock", "h.mu">>,
            <<"RLock", "stream.mu">>, <<"push", "stream.mu">>,
            <<"RUnlock", "stream.mu">> >>
    [] op = "close_unknown" ->
         << <<"Lock", "h.mu">>, <<"Unlock", "h.mu">> >>
    [] op = "seek" ->
         << <<"RLock", "h.mu">>, <<"RUnlock", "h.mu">>,
            <<"RLock", "stream.mu">>, <<"push", "stream.mu">>,
            <<"RUnlock", "stream.mu">> >>
    [] op = "seek_unknown" ->
         << <<"RLock", "h.mu">>, <<"RUnlock", "h.mu">> >>
    [] op = "control" ->
         << <<"Lock", "sub.mu">>, <<"Unlock", "sub.mu">> >>
    [] op = "list" ->
         << <<"RLock", "h.mu">>, <<"RLock", "stream.mu">>,
            <<"RUnlock", "stream.mu">>, <<"RUnlock", "h.mu">> >>

\* mutant: unsubscribe takes the stream lock before the registry lock
ProgramStreamFirst(op) ==
  IF op = "unsubscribe"
  THEN << <<"Lock", "stream.mu">>, <<"Lock", "h.mu">>,
          <<"Unlock", "h.mu">>, <<"Unlock", "stream.mu">> >>
  ELSE ProgramOf(op)

\* unsubscribe holds the registry lock while it takes the stream lock
Program(op) ==
  IF op = "unsubscribe"
  THEN << <<"Lock", "h.mu">>, <<"Lock", "stream.mu">>,
          <<"Unlock", "stream.mu">>, <<"Unlock", "h.mu">> >>
  ELSE ProgramOf(op)

\* the next instruction of a caller that is inside an operation
Instr(c) == Program(lockCalls[c].op)[lockCalls[c].at]

\* how many of the instructions the caller has executed are <<kind, lock>>
Executed(c, kind, lock) ==
  Cardinality({k \in 1..(lockCalls[c].at - 1) :
                 Program(lockCalls[c].op)[k] = <<kind, lock>>})

InCall(c) == lockCalls[c].op # "none"
HoldsW(c, lock) ==
  InCall(c) /\ Executed(c, "Lock", lock) > Executed(c, "Unlock", lock)
HoldsR(c, lock) ==
  InCall(c) /\ Executed(c, "RLock", lock) > Executed(c, "RUnlock", lock)
\* the caller has called Lock and waits: a sync.RWMutex admits no new
\* reader while a writer waits
WaitsW(c, lock) == InCall(c) /\ Instr(c) = <<"Lock", lock>>

\* the caller's next instruction does not block
CanStep(c) ==
  LET kind == Instr(c)[1]
      lock == Instr(c)[2] IN
  CASE kind = "Lock" ->
         \A d \in Callers \ {c} : ~HoldsW(d, lock) /\ ~HoldsR(d, lock)
    [] kind = "RLock" ->
         \A d \in Callers \ {c} : ~HoldsW(d, lock) /\ ~WaitsW(d, lock)
    [] OTHER -> TRUE

\* a goroutine calls a hub operation
CallStart(c, op) ==
  /\ lockCalls[c] = NoCall
  /\ lockCalls' = [lockCalls EXCEPT ![c] = [op |-> op, at |-> 1]]
  /\ UNCHANGED <<hubVars, hubHist, hubCalls, writePumps, convVars, linkSide>>

\* a goroutine executes the next lock instruction of its operation, and
\* returns after the last
CallStep(c) ==
  /\ InCall(c)
  /\ CanStep(c)
  /\ lockCalls' = [lockCalls EXCEPT ![c] =
                     IF @.at = Len(Program(@.op)) THEN NoCall
                     ELSE [@ EXCEPT !.at = @ + 1]]
  /\ UNCHANGED <<hubVars, hubHist, hubCalls, writePumps, convVars, linkSide>>

(* ----------------------- MatchRetrievalHandler ------------------------- *)
\* serveEchoReplay lines 176-186: a request finds the cached file and
\* serves it, or goes on to the conversion
serveEchoReplayStat(r) ==
  /\ requests[r].pc \in {"idle", "answered"}
  /\ requests' = [requests EXCEPT ![r] =
                    IF cached
                    THEN [pc |-> "answered", job |-> 0, answer |-> "file"]
                    ELSE [pc |-> "checked", job |-> 0, answer |-> "none"]]
  /\ UNCHANGED <<conversions, jobs, timers, cached>>
  /\ UNCHANGED <<hubVars, hubHist, hubCalls, writePumps, lockCalls, linkSide>>

\* mutant: the entry of the map is not looked at
ExistingJobIgnored(conv) == 0

\* getOrStartConversion lines 210-212: the job to join, 0 if there is none
ExistingJob(conv) == conv

\* getOrStartConversion lines 206-225, under conversionMu: the request
\* takes the job of the map entry, or stores a new job and starts its
\* runConversion goroutine
getOrStartConversion(r) ==
  /\ requests[r].pc = "checked"
  /\ IF ExistingJob(conversions) # 0
     THEN /\ requests' = [requests EXCEPT ![r] =
                            [pc |-> "waiting", job |-> ExistingJob(conversions),
                             answer |-> "none"]]
          /\ UNCHANGED <<conversions, jobs>>
     ELSE /\ Len(jobs) < MaxJobs
          /\ jobs' = Append(jobs, [state |-> "running", err |-> "nil"])
          /\ conversions' = Len(jobs) + 1
          /\ requests' = [requests EXCEPT ![r] =
                            [pc |-> "waiting", job |-> Len(jobs) + 1,
                             answer |-> "none"]]
  /\ UNCHANGED <<timers, cached>>
  /\ UNCHANGED <<hubVars, hubHist, hubCalls, writePumps, lockCalls, linkSide>>

\* runConversion lines 245-264: the conversion ends with err; without an
\* error the output has been renamed into the cache
runConversionResult(j, err) ==
  /\ j \in 1..Len(jobs)
  /\ jobs[j].state = "running"
  /\ jobs' = [jobs EXCEPT ![j] = [state |-> "returning", err |-> err]]
  /\ cached' = (cached \/ err = "nil")
  /\ UNCHANGED <<conversions, timers, requests>>
  /\ UNCHANGED <<hubVars, hubHist, hubCalls, writePumps, lockCalls, linkSide>>

\* runConversion lines 228-237, the deferred function: close(job.done) and
\* arm the timer that deletes the map entry
runConversionReturn(j) ==
  /\ j \in 1..Len(jobs)
  /\ jobs[j].state = "returning"
  /\ jobs' = [jobs EXCEPT ![j].state = "done"]
  /\ timers' = timers \cup {j}
  /\ UNCHANGED <<conversions, cached, requests>>
  /\ UNCHANGED <<hubVars, hubHist, hubCalls, writePumps, lockCalls, linkSide>>

\* runConversion lines 232-236: the timer of job j fires and deletes the
\* entry of the matchID
AfterFuncDelete(j) ==
  /\ j \in timers
  /\ timers' = timers \ {j}
  /\ conversions' = 0
  /\ UNCHANGED <<jobs, cached, requests>>
  /\ UNCHANGED <<hubVars, hubHist, hubCalls, writePumps, lockCalls, linkSide>>

\* serveEchoReplay lines 197-202: job.done is closed; the request answers
\* with the job's error or with the converted file
serveEchoReplayDone(r) ==
  /\ requests[r].pc = "waiting"
  /\ jobs[requests[r].job].state = "done"
  /\ requests' = [requests EXCEPT ![r] =
                    [@ EXCEPT !.pc = "answered",
                              !.answer = IF jobs[requests[r].job].err = "nil"
                                         THEN "file" ELSE "500"]]
  /\ UNCHANGED <<conversions, jobs, timers, cached>>
  /\ UNCHANGED <<hubVars, hubHist, hubCalls, writePumps, lockCalls, linkSide>>

\* serveEchoReplay lines 194-196: the request's context is cancelled
serveEchoReplayCancelled(r) ==
  /\ requests[r].pc = "waiting"
  /\ requests' = [requests EXCEPT ![r] =
                    [@ EXCEPT !.pc = "answered", !.answer = "408"]]
  /\ UNCHANGED <<conversions, jobs, timers, cached>>
  /\ UNCHANGED <<hubVars, hubHist, hubCalls, writePumps, lockCalls, linkSide>>

(* ---------------------------- WebSocketWriter -------------------------- *)
\* The goroutines of one kind run the same code and differ only in their
\* locals, so each kind is kept as counters and a bag of locals rather than
\* by goroutine.  A goroutine's copy of w.conn is kept as cur: whether it is
\* still the connection held in w.conn (a replaced connection was closed,
\* reconnectLoop lines 165-168).
Frames == 1..MaxSends

Min(a, b) == IF a < b THEN a ELSE b

BagOf(e, n) == IF n > 0 THEN [x \in {e} |-> n] ELSE EmptyBag
BagAdd(b, e) == b (+) BagOf(e, 1)
BagRemove(b, e) == b (-) BagOf(e, 1)

NoSpill == [epoch |-> 0, sentBefore |-> 0, entries |-> <<>>]

\* w.mu is free, or a reconnectLoop whose delay is d holds it while it dials
NoHolder == [holder |-> "none", delay |-> 0]
DiallingLoop(d) == [holder |-> "reconnectLoop", delay |-> d]
MuFree == mu = NoHolder

\* NewWebSocketWriter lines 60-75: nothing connected, no goroutine running
LinkInit ==
  /\ stopped = FALSE
  /\ conn = 0
  /\ connected = FALSE
  /\ sinceDisconnect = -1
  /\ outgoingCh = <<>>
  /\ reconnectCh = FALSE
  /\ diskBufferFile = "nil"
  /\ diskBufferPath = FALSE
  /\ usingDiskBuffer = FALSE
  /\ diskFile = <<>>
  /\ readLoop = [cur |-> 0, old |-> 0]
  /\ writeLoop = [idle |-> 0, have |-> {}]
  /\ reconnectLoop = [wait |-> EmptyBag, retry |-> EmptyBag]
  /\ drain = EmptyBag
  /\ cleanups = 0
  /\ mu = NoHolder
  /\ inWriteFrame = FALSE
  /\ sendResult = "none"
  /\ connectResult = "none"
  /\ connAlive = FALSE
  /\ connects = 0
  /\ failedDials = 0
  /\ drops = 0
  /\ received = <<>>
  /\ nsent = 0
  /\ sentTag = [f \in Frames |-> "unsent"]
  /\ sinceDown = -1
  /\ everDisk = FALSE
  /\ spillAtReconnect = NoSpill

\* history: the age of the current disconnection once w.connected has the
\* value nowConnected
DownAfter(nowConnected) ==
  IF nowConnected THEN -1 ELSE IF connected THEN 0 ELSE sinceDown

\* history: sentTag once w.connected has the value nowConnected.  The tags
\* "window" and "late" speak of the latest disconnection: when a new one
\* starts, the frames accepted during an earlier one become "earlier".
TagsAfter(nowConnected) ==
  IF ~nowConnected /\ connected
  THEN [f \in Frames |->
          IF sentTag[f] \in {"window", "late"} THEN "earlier" ELSE sentTag[f]]
  ELSE sentTag

\* select { case w.outgoingCh <- frame: default: } (lines 207-215, 349-353)
ChanSend(q, f) == IF Len(q) < memoryBufferSize THEN Append(q, f) ELSE q

\* mutant: WriteFrame does not look at w.stopped
WriteFrameResultIgnoringStop ==
  IF Len(outgoingCh) < memoryBufferSize THEN "ok" ELSE "full"

\* WriteFrame lines 203-215: what the call returns
WriteFrameResult ==
  IF stopped THEN "stopped"
  ELSE IF Len(outgoingCh) < memoryBufferSize THEN "ok" ELSE "full"

\* WriteFrame lines 202-216, the frame is accepted.  The frame accepted as
\* the n-th is frame n; sentTag records whether the link was connected, not
\* yet connected for the first time, in the first diskBufferThreshold seconds
\* of a disconnection, or later in it.
WriteFrame ==
  /\ MuFree
  /\ nsent < MaxSends
  /\ WriteFrameResult = "ok"
  /\ sendResult' = "ok"
  /\ outgoingCh' = ChanSend(outgoingCh, nsent + 1)
  /\ nsent' = nsent + 1
  /\ sentTag' = [sentTag EXCEPT ![nsent + 1] =
       IF connected THEN "connected"
       ELSE IF sinceDown = -1 THEN "initial"
       ELSE IF sinceDown <= diskBufferThreshold THEN "window" ELSE "late"]
  /\ UNCHANGED <<stopped, conn, connected, sinceDisconnect, reconnectCh,
                 diskBufferFile, diskBufferPath, usingDiskBuffer, diskFile,
                 readLoop, writeLoop, reconnectLoop, drain, netVars,
                 sinceDown, everDisk, spillAtReconnect>>
  /\ inWriteFrame' = FALSE
  /\ UNCHANGED <<cleanups, connectResult, mu, hubSide>>

\* WriteFrame lines 203-205 and 212-214: the writer is stopped, or the
\* channel is full; the call returns an error and the frame is dropped
WriteFrameRejected ==
  /\ MuFree
  /\ WriteFrameResult # "ok"
  /\ sendResult' = WriteFrameResult
  /\ inWriteFrame' = FALSE
  /\ UNCHANGED <<linkVars, cleanups, connectResult, mu, netVars, linkHist,
                 hubSide>>

\* TickSeconds seconds pass.  An age is kept up to diskBufferThreshold + 1:
\* the code only asks whether it exceeds the threshold.
Tick ==
  /\ sinceDisconnect \in 0..diskBufferThreshold
       \/ sinceDown \in 0..diskBufferThreshold
  /\ sinceDisconnect' = IF sinceDisconnect \in 0..diskBufferThreshold
                        THEN Min(sinceDisconnect + TickSeconds,
                                 diskBufferThreshold + 1)
                        ELSE sinceDisconnect
  /\ sinceDown' = IF sinceDown \in 0..diskBufferThreshold
                  THEN Min(sinceDown + TickSeconds, diskBufferThreshold + 1)
                  ELSE sinceDown
  /\ UNCHANGED <<stopped, conn, connected, outgoingCh, reconnectCh,
                 diskBufferFile, diskBufferPath, usingDiskBuffer, diskFile,
                 readLoop, writeLoop, reconnectLoop, drain, netVars,
                 nsent, sentTag, everDisk, spillAtReconnect>>
  /\ UNCHANGED <<closeVars, lockVars, hubSide>>

\* The network, or the collector, drops the current connection.
NetDrop ==
  /\ conn # 0
  /\ connAlive
  /\ drops < MaxDrops
  /\ connAlive' = FALSE
  /\ drops' = drops + 1
  /\ UNCHANGED <<linkVars, connects, failedDials, received, linkHist>>
  /\ UNCHANGED <<closeVars, lockVars, hubSide>>

\* the goroutines' copies of w.conn once w.conn is closed and replaced
StaleReaders == [cur |-> 0, old |-> readLoop.old + readLoop.cur]
StaleWriters == [idle |-> writeLoop.idle,
                 have |-> {[h EXCEPT !.cur = FALSE] : h \in writeLoop.have}]

\* connectLocked lines 111-124 after a successful dial: the new connection
\* is installed and a readLoop, a writeLoop and a reconnectLoop are started
Installed(rc) ==
  /\ conn' = connects + 1
  /\ connected' = TRUE
  /\ connAlive' = TRUE
  /\ connects' = connects + 1
  /\ readLoop' = [StaleReaders EXCEPT !.cur = @ + 1]
  /\ writeLoop' = [StaleWriters EXCEPT !.idle = @ + 1]
  /\ reconnectLoop' = [rc EXCEPT !.wait = BagAdd(@, initialReconnectDelay)]
  /\ sinceDown' = -1

\* mutant: connectLocked dials whatever w.connected says
ConnectDialsAlways == TRUE

\* connectLocked lines 87-89: it dials only when the link is not connected
ConnectDials == ~connected

\* what a Connect call whose dial succeeds does, connectLocked lines 111-126
ConnectDialled ==
  /\ Installed(reconnectLoop)
  /\ connectResult' = IF connected THEN "redialled" ELSE "dialled"
  /\ UNCHANGED <<stopped, sinceDisconnect, outgoingCh, reconnectCh,
                 diskBufferFile, diskBufferPath, usingDiskBuffer, diskFile,
                 drain, failedDials, drops, received, nsent, sentTag, everDisk,
                 spillAtReconnect>>
  /\ UNCHANGED <<cleanups, sendResult, lockVars, hubSide>>

\* Connect lines 78-83, the call made once after construction (a failed
\* dial returns the error and changes nothing)
Connect ==
  /\ MuFree
  /\ ~stopped
  /\ connects = 0
  /\ ConnectDials
  /\ ConnectDialled

\* Connect lines 78-89 on a link that is connected: connectLocked returns nil
\* at once
ConnectAgain ==
  /\ MuFree
  /\ connected
  /\ connects < MaxConnects
  /\ IF ConnectDials
     THEN ConnectDialled
     ELSE /\ connectResult' = "already"
          /\ UNCHANGED <<linkVars, cleanups, sendResult, lockVars, netVars,
                         linkHist, hubSide>>

\* mutant: Close leaves the connection open
ConnLeftOpen == connAlive

\* Close lines 230-232: the connection is closed (there is none to be up
\* when w.conn is nil)
ConnAfterClose == FALSE

\* Close lines 219-236: the first call stops the writer, cancels the
\* context, closes the connection and starts a cleanupDiskBuffer goroutine;
\* a later call returns at once
Close ==
  /\ MuFree
  /\ IF stopped
     THEN UNCHANGED <<stopped, connAlive, cleanups>>
     ELSE /\ stopped' = TRUE
          /\ connAlive' = ConnAfterClose
          /\ cleanups' = cleanups + 1
  /\ UNCHANGED <<conn, connected, sinceDisconnect, outgoingCh, reconnectCh,
                 diskBufferFile, diskBufferPath, usingDiskBuffer, diskFile,
                 readLoop, writeLoop, reconnectLoop, drain, sendResult,
                 connectResult, lockVars, connects, failedDials, drops,
                 received, linkHist, hubSide>>

\* a drainDiskBuffer between its lines 453 and 457: it has the path and is
\* about to open it; stale once the file at that path has been removed
DrainOpening(stale) == [pc |-> "open", lines |-> <<>>, stale |-> stale]

\* cleanupDiskBuffer lines 523-543: the handle is dropped and the file at
\* diskBufferPath removed, so an os.Open of that path still to come fails
cleanupDiskBuffer(dr) ==
  /\ diskBufferFile' = "nil"
  /\ diskBufferPath' = FALSE
  /\ usingDiskBuffer' = FALSE
  /\ diskFile' = <<>>
  /\ drain' = IF diskBufferPath
              THEN (dr (-) BagOf(DrainOpening(FALSE),
                                 CopiesIn(DrainOpening(FALSE), dr)))
                   (+) BagOf(DrainOpening(TRUE),
                             CopiesIn(DrainOpening(FALSE), dr))
              ELSE dr

\* the cleanupDiskBuffer goroutine of Close (line 235) runs
CloseCleanup ==
  /\ cleanups > 0
  /\ cleanups' = cleanups - 1
  /\ cleanupDiskBuffer(drain)
  /\ UNCHANGED <<stopped, conn, connected, sinceDisconnect, outgoingCh,
                 reconnectCh, readLoop, writeLoop, reconnectLoop, sendResult,
                 connectResult, lockVars, netVars, linkHist, hubSide>>

\* mutant: the failure handler marks the link disconnected and does not
\* signal the reconnect task
DisconnectedSilently(setAt) ==
  /\ connected' = FALSE
  /\ sinceDisconnect' = IF setAt THEN 0 ELSE sinceDisconnect
  /\ reconnectCh' = reconnectCh
  /\ sinceDown' = DownAfter(FALSE)
  /\ sentTag' = TagsAfter(FALSE)

\* a read, write or ping failure handler, lines 275-279, 326-330, 384-388,
\* 496-500; setAt: the handler sets disconnectedAt (readLoop's does not)
Disconnected(setAt) ==
  /\ connected' = FALSE
  /\ sinceDisconnect' = IF setAt THEN 0 ELSE sinceDisconnect
  /\ reconnectCh' = TRUE
  /\ sinceDown' = DownAfter(FALSE)
  /\ sentTag' = TagsAfter(FALSE)

\* readLoop lines 250-281: a readLoop blocks in ReadMessage on the connection
\* it was started for; the read fails on the current connection when it is
\* down, on a replaced one because it was closed
ReadLoopError(onCurrent) ==
  /\ MuFree
  /\ IF onCurrent THEN readLoop.cur > 0 /\ ~connAlive ELSE readLoop.old > 0
  /\ Disconnected(FALSE)
  /\ readLoop' = IF onCurrent THEN [readLoop EXCEPT !.cur = @ - 1]
                 ELSE [readLoop EXCEPT !.old = @ - 1]
  /\ UNCHANGED <<stopped, conn, outgoingCh, diskBufferFile, diskBufferPath,
                 usingDiskBuffer, diskFile, writeLoop, reconnectLoop, drain,
                 netVars, nsent, everDisk, spillAtReconnect>>
  /\ UNCHANGED <<closeVars, lockVars, hubSide>>

\* writeLoop lines 335-347: what the loop decides for the frame it pulled
WriteMode ==
  IF ~connected \/ conn = 0
  THEN IF sinceDisconnect # -1 /\ sinceDisconnect > diskBufferThreshold
       THEN "disk" ELSE "requeue"
  ELSE "send"

\* writeLoop lines 334-347: a frame is taken from the channel and the
\* connection state read under the lock
WriteLoopPull ==
  /\ MuFree
  /\ writeLoop.idle > 0
  /\ outgoingCh # <<>>
  /\ outgoingCh' = Tail(outgoingCh)
  /\ writeLoop' = [idle |-> writeLoop.idle - 1,
                   have |-> writeLoop.have \cup
                     {[frame |-> Head(outgoingCh), mode |-> WriteMode,
                       cur |-> conn # 0]}]
  /\ UNCHANGED <<stopped, conn, connected, sinceDisconnect, reconnectCh,
                 diskBufferFile, diskBufferPath, usingDiskBuffer, diskFile,
                 readLoop, reconnectLoop, drain, netVars, linkHist>>
  /\ UNCHANGED <<closeVars, lockVars, hubSide>>

\* the write loop holding h goes back to its select
WriteLoopBack(h) == [idle |-> writeLoop.idle + 1, have |-> writeLoop.have \ {h}]
\* the write loop holding h returns
WriteLoopGone(h) == [idle |-> writeLoop.idle, have |-> writeLoop.have \ {h}]

\* writeLoop lines 348-356: still in the memory phase, the frame is put back
\* at the tail of the channel, or dropped when the channel is full
WriteLoopRequeue(h) ==
  /\ h.mode = "requeue"
  /\ outgoingCh' = ChanSend(outgoingCh, h.frame)
  /\ writeLoop' = WriteLoopBack(h)
  /\ UNCHANGED <<stopped, conn, connected, sinceDisconnect, reconnectCh,
                 diskBufferFile, diskBufferPath, usingDiskBuffer, diskFile,
                 readLoop, reconnectLoop, drain, netVars, linkHist>>
  /\ UNCHANGED <<closeVars, lockVars, hubSide>>

\* bufferToDisk lines 396-439: the file is created when there is no handle;
\* the write fails on a handle that a drain has closed
WriteLoopSpill(h) ==
  /\ h.mode = "disk"
  /\ diskBufferFile' = IF diskBufferFile = "nil" THEN "open" ELSE diskBufferFile
  /\ diskBufferPath' = (diskBufferFile = "nil" \/ diskBufferPath)
  /\ usingDiskBuffer' = (diskBufferFile = "nil" \/ usingDiskBuffer)
  /\ diskFile' = IF diskBufferFile = "nil" THEN <<h.frame>>
                 ELSE IF diskBufferFile = "open" THEN Append(diskFile, h.frame)
                 ELSE diskFile
  /\ everDisk' = (everDisk \/ usingDiskBuffer')
  /\ writeLoop' = WriteLoopBack(h)
  /\ UNCHANGED <<stopped, conn, connected, sinceDisconnect, outgoingCh,
                 reconnectCh, readLoop, reconnectLoop, drain, netVars,
                 nsent, sentTag, sinceDown, spillAtReconnect>>
  /\ UNCHANGED <<closeVars, lockVars, hubSide>>

\* writeLoop lines 366-380: the envelope is written to the connection read
\* at line 336 and reaches the collector
WriteLoopSend(h) ==
  /\ h.mode = "send"
  /\ h.cur /\ connAlive
  /\ received' = Append(received, h.frame)
  /\ writeLoop' = WriteLoopBack(h)
  /\ UNCHANGED <<stopped, conn, connected, sinceDisconnect, outgoingCh,
                 reconnectCh, diskBufferFile, diskBufferPath, usingDiskBuffer,
                 diskFile, readLoop, reconnectLoop, drain, connAlive, connects,
                 failedDials, drops, linkHist>>
  /\ UNCHANGED <<closeVars, lockVars, hubSide>>

\* writeLoop lines 382-390 and the deferred cleanupDiskBuffer of line 299:
\* the write fails, the loop marks the link disconnected and returns
WriteLoopSendFail(h) ==
  /\ MuFree
  /\ h.mode = "send"
  /\ ~(h.cur /\ connAlive)
  /\ Disconnected(TRUE)
  /\ writeLoop' = WriteLoopGone(h)
  /\ cleanupDiskBuffer(drain)
  /\ UNCHANGED <<stopped, conn, outgoingCh, readLoop, reconnectLoop,
                 netVars, nsent, everDisk, spillAtReconnect>>
  /\ UNCHANGED <<closeVars, lockVars, hubSide>>

\* writeLoop lines 314-332 and 299: the keep-alive ping fails on a dead
\* connection
WriteLoopPingFail ==
  /\ MuFree
  /\ writeLoop.idle > 0
  /\ connected /\ conn # 0
  /\ ~connAlive
  /\ Disconnected(TRUE)
  /\ writeLoop' = [writeLoop EXCEPT !.idle = @ - 1]
  /\ cleanupDiskBuffer(drain)
  /\ UNCHANGED <<stopped, conn, outgoingCh, readLoop, reconnectLoop,
                 netVars, nsent, everDisk, spillAtReconnect>>
  /\ UNCHANGED <<closeVars, lockVars, hubSide>>

\* writeLoop lines 311-312 and 299: the context is cancelled, the loop
\* returns and its deferred cleanupDiskBuffer runs
WriteLoopExit ==
  /\ stopped
  /\ writeLoop.idle > 0
  /\ writeLoop' = [writeLoop EXCEPT !.idle = @ - 1]
  /\ cleanupDiskBuffer(drain)
  /\ UNCHANGED <<stopped, conn, connected, sinceDisconnect, outgoingCh,
                 reconnectCh, readLoop, reconnectLoop, closeVars, lockVars,
                 netVars, linkHist, hubSide>>

\* reconnectLoop lines 143-146: a waiting loop, whose delay is d, takes the
\* reconnect signal
ReconnectSignal(d) ==
  /\ BagIn(d, reconnectLoop.wait)
  /\ reconnectCh
  /\ reconnectCh' = FALSE
  /\ reconnectLoop' = [wait |-> BagRemove(reconnectLoop.wait, d),
                       retry |-> BagAdd(reconnectLoop.retry, d)]
  /\ UNCHANGED <<stopped, conn, connected, sinceDisconnect, outgoingCh,
                 diskBufferFile, diskBufferPath, usingDiskBuffer, diskFile,
                 readLoop, writeLoop, drain, netVars, linkHist>>
  /\ UNCHANGED <<closeVars, lockVars, hubSide>>

\* mutant: the delay is doubled without the cap
NextDelayUncapped(d) == d * reconnectBackoffMult

\* reconnectLoop lines 144-145, 150-151 and 159-162: the context is
\* cancelled or the writer stopped; a loop with delay d returns, from its
\* wait for the signal or from its round of attempts
ReconnectLoopExit(d, retrying) ==
  /\ stopped
  /\ BagIn(d, IF retrying THEN reconnectLoop.retry ELSE reconnectLoop.wait)
  /\ reconnectLoop' =
       IF retrying THEN [reconnectLoop EXCEPT !.retry = BagRemove(@, d)]
       ELSE [reconnectLoop EXCEPT !.wait = BagRemove(@, d)]
  /\ UNCHANGED <<stopped, conn, connected, sinceDisconnect, outgoingCh,
                 reconnectCh, diskBufferFile, diskBufferPath, usingDiskBuffer,
                 diskFile, readLoop, writeLoop, drain, closeVars, lockVars,
                 netVars, linkHist, hubSide>>

\* reconnectLoop lines 158-171, up to the call of DialContext: a retrying
\* loop whose delay is d takes w.mu, closes the connection and starts to
\* dial with w.mu held
ReconnectDial(d) ==
  /\ MuFree
  /\ BagIn(d, reconnectLoop.retry)
  /\ ~stopped
  /\ mu' = DiallingLoop(d)
  /\ conn' = 0
  /\ connected' = FALSE
  /\ connAlive' = FALSE
  /\ sinceDown' = DownAfter(FALSE)
  /\ sentTag' = TagsAfter(FALSE)
  /\ readLoop' = StaleReaders
  /\ writeLoop' = StaleWriters
  /\ UNCHANGED <<stopped, sinceDisconnect, outgoingCh, reconnectCh,
                 diskBufferFile, diskBufferPath, usingDiskBuffer, diskFile,
                 reconnectLoop, drain, connects, failedDials, drops, received,
                 nsent, everDisk, spillAtReconnect>>
  /\ UNCHANGED <<closeVars, inWriteFrame, hubSide>>

\* WriteFrame line 203, IsStopped line 240: the producer has called
\* WriteFrame and is at w.mu.Lock
WriteFrameCall ==
  /\ ~inWriteFrame
  /\ nsent < MaxSends
  /\ inWriteFrame' = TRUE
  /\ UNCHANGED <<linkVars, closeVars, mu, netVars, linkHist, hubSide>>

\* reconnectLoop lines 177-180
NextDelay(d) ==
  IF d * reconnectBackoffMult > maxReconnectDelay THEN maxReconnectDelay
  ELSE d * reconnectBackoffMult

\* reconnectLoop lines 155-190, the dial succeeds: the old connection is
\* closed, the new one installed with its three goroutines, the backoff
\* reset and a drainDiskBuffer goroutine started.  d is the loop's delay.
ReconnectSuccess(d) ==
  /\ mu \in {NoHolder, DiallingLoop(d)}
  /\ mu' = NoHolder
  /\ BagIn(d, reconnectLoop.retry)
  /\ ~stopped
  /\ connects < MaxConnects
  /\ Installed([wait |-> BagAdd(reconnectLoop.wait, initialReconnectDelay),
                retry |-> BagRemove(reconnectLoop.retry, d)])
  /\ drain' = BagAdd(drain, [pc |-> "start", lines |-> <<>>, stale |-> FALSE])
  /\ spillAtReconnect' =
       IF diskBufferPath /\ diskFile # <<>>
       THEN [epoch |-> connects + 1, sentBefore |-> nsent,
             entries |-> diskFile]
       ELSE NoSpill
  /\ UNCHANGED <<stopped, sinceDisconnect, outgoingCh, reconnectCh,
                 diskBufferFile, diskBufferPath, usingDiskBuffer, diskFile,
                 failedDials, drops, received, nsent, sentTag, everDisk>>
  /\ UNCHANGED <<closeVars, inWriteFrame, hubSide>>

\* reconnectLoop lines 155-181, the dial fails: the old connection is closed
\* and the delay doubled up to the maximum
DialFailure(d) ==
  /\ mu \in {NoHolder, DiallingLoop(d)}
  /\ mu' = NoHolder
  /\ BagIn(d, reconnectLoop.retry)
  /\ ~stopped
  /\ failedDials' = failedDials + 1
  /\ conn' = 0
  /\ connected' = FALSE
  /\ connAlive' = FALSE
  /\ sinceDown' = DownAfter(FALSE)
  /\ sentTag' = TagsAfter(FALSE)
  /\ readLoop' = StaleReaders
  /\ writeLoop' = StaleWriters
  /\ reconnectLoop' = [reconnectLoop EXCEPT
                         !.retry = BagAdd(BagRemove(@, d), NextDelay(d))]
  /\ UNCHANGED <<stopped, sinceDisconnect, outgoingCh, reconnectCh,
                 diskBufferFile, diskBufferPath, usingDiskBuffer, diskFile,
                 drain, connects, drops, received, nsent, everDisk,
                 spillAtReconnect>>
  /\ UNCHANGED <<closeVars, inWriteFrame, hubSide>>

\* a failed dial, at most MaxFailedDials of them
ReconnectFailure(d) ==
  /\ failedDials < MaxFailedDials
  /\ DialFailure(d)

\* a failed dial, at most MaxBackoffDials of them
BackoffFailure(d) ==
  /\ failedDials < MaxBackoffDials
  /\ DialFailure(d)

\* drainDiskBuffer lines 443-453: nothing to drain, or the write handle is
\* closed (and kept) and the path remembered
DrainStart(dr) ==
  /\ dr.pc = "start"
  /\ IF ~usingDiskBuffer \/ diskBufferFile = "nil"
     THEN /\ drain' = BagRemove(drain, dr)
          /\ UNCHANGED diskBufferFile
     ELSE /\ drain' = BagAdd(BagRemove(drain, dr), DrainOpening(FALSE))
          /\ diskBufferFile' = "closed"
  /\ UNCHANGED <<stopped, conn, connected, sinceDisconnect, outgoingCh,
                 reconnectCh, diskBufferPath, usingDiskBuffer, diskFile,
                 readLoop, writeLoop, reconnectLoop, netVars, linkHist>>
  /\ UNCHANGED <<closeVars, lockVars, hubSide>>

\* drainDiskBuffer lines 457-467: the file is opened for reading; when it
\* has been removed meanwhile the drain cleans up and returns
DrainOpen(dr) ==
  /\ dr.pc = "open"
  /\ IF dr.stale
     THEN cleanupDiskBuffer(BagRemove(drain, dr))
     ELSE /\ drain' = BagAdd(BagRemove(drain, dr),
                             [pc |-> "scan", lines |-> diskFile,
                              stale |-> FALSE])
          /\ UNCHANGED <<diskBufferFile, diskBufferPath, usingDiskBuffer,
                         diskFile>>
  /\ UNCHANGED <<stopped, conn, connected, sinceDisconnect, outgoingCh,
                 reconnectCh, readLoop, writeLoop, reconnectLoop, netVars,
                 linkHist>>
  /\ UNCHANGED <<closeVars, lockVars, hubSide>>

\* drainDiskBuffer lines 472-511: one buffered line is written to the
\* connection and reaches the collector
DrainSend(dr) ==
  /\ MuFree
  /\ dr.pc = "scan"
  /\ dr.lines # <<>>
  /\ ~stopped
  /\ connected /\ conn # 0 /\ connAlive
  /\ received' = Append(received, Head(dr.lines))
  /\ drain' = BagAdd(BagRemove(drain, dr), [dr EXCEPT !.lines = Tail(@)])
  /\ UNCHANGED <<stopped, conn, connected, sinceDisconnect, outgoingCh,
                 reconnectCh, diskBufferFile, diskBufferPath, usingDiskBuffer,
                 diskFile, readLoop, writeLoop, reconnectLoop, connAlive,
                 connects, failedDials, drops, linkHist>>
  /\ UNCHANGED <<closeVars, lockVars, hubSide>>

\* drainDiskBuffer lines 486-490: the link is not connected, the drain
\* returns and keeps the file
DrainAbort(dr) ==
  /\ MuFree
  /\ dr.pc = "scan"
  /\ dr.lines # <<>>
  /\ ~stopped
  /\ ~connected \/ conn = 0
  /\ drain' = BagRemove(drain, dr)
  /\ UNCHANGED <<stopped, conn, connected, sinceDisconnect, outgoingCh,
                 reconnectCh, diskBufferFile, diskBufferPath, usingDiskBuffer,
                 diskFile, readLoop, writeLoop, reconnectLoop, netVars,
                 linkHist>>
  /\ UNCHANGED <<closeVars, lockVars, hubSide>>

\* drainDiskBuffer lines 494-502: the write fails, the drain marks the link
\* disconnected and returns, keeping the file
DrainSendFail(dr) ==
  /\ MuFree
  /\ dr.pc = "scan"
  /\ dr.lines # <<>>
  /\ ~stopped
  /\ connected /\ conn # 0 /\ ~connAlive
  /\ Disconnected(TRUE)
  /\ drain' = BagRemove(drain, dr)
  /\ UNCHANGED <<stopped, conn, outgoingCh, diskBufferFile, diskBufferPath,
                 usingDiskBuffer, diskFile, readLoop, writeLoop, reconnectLoop,
                 netVars, nsent, everDisk, spillAtReconnect>>
  /\ UNCHANGED <<closeVars, lockVars, hubSide>>

\* drainDiskBuffer lines 473-477: the context is cancelled, the drain
\* removes the file and returns
DrainCancelled(dr) ==
  /\ dr.pc = "scan"
  /\ dr.lines # <<>>
  /\ stopped
  /\ cleanupDiskBuffer(BagRemove(drain, dr))
  /\ UNCHANGED <<stopped, conn, connected, sinceDisconnect, outgoingCh,
                 reconnectCh, readLoop, writeLoop, reconnectLoop, closeVars,
                 lockVars, netVars, linkHist, hubSide>>

\* drainDiskBuffer lines 514-519: every line was sent, the file is removed
DrainFinish(dr) ==
  /\ dr.pc = "scan"
  /\ dr.lines = <<>>
  /\ cleanupDiskBuffer(BagRemove(drain, dr))
  /\ UNCHANGED <<stopped, conn, connected, sinceDisconnect, outgoingCh,
                 reconnectCh, readLoop, writeLoop, reconnectLoop, netVars,
                 linkHist>>
  /\ UNCHANGED <<closeVars, lockVars, hubSide>>

(* ---------------------------- specifications -------------------------- *)
\* the hub and the writer as constructed
Init == HubInit /\ LinkInit

\* The index given to the n-th frame of a match by a producer that numbers
\* its frames 1, 2, 3, ...
NextFrameIndex(m) == Len(broadcasts[m]) + 1

\* The hub itself accepts any uint32 index: SpecRing also explores repeated,
\* decreasing and zero indices.
MaxFrameIndex == 3
FrameIndices == 0..MaxFrameIndex

\* One subscriber session against a match whose frames are numbered in order.
HubNext ==
  \/ \E m \in MatchIDs : handleStreamConnection("s1", m)
  \/ unsubscribe("s1")
  \/ \E m \in MatchIDs : BroadcastFrame(m, NextFrameIndex(m))
  \/ \E m \in MatchIDs : CloseMatch(m)
  \/ \E cmd \in {"pause", "play"} : handleControl("s1", cmd)
  \/ \E idx \in 1..MaxBroadcasts : handleSeek("s1", idx)
  \/ writePump("s1")

SpecHub == Init /\ [][HubNext]_vars

\* SpecHub with the session's writePump goroutine scheduled: a message that
\* waits in the send channel is eventually written (lines 440-450).  The
\* client and the producer are free to do nothing more.
SpecHubFair == SpecHub /\ WF_vars(writePump("s1"))

\* The ring buffer under any sequence of frame indices, with one subscriber
\* that seeks.
RingNext ==
  \/ \E m \in MatchIDs : handleStreamConnection("s1", m)
  \/ \E m \in MatchIDs, idx \in FrameIndices : BroadcastFrame(m, idx)
  \/ \E idx \in FrameIndices : handleSeek("s1", idx)
  \/ writePump("s1")

SpecRing == Init /\ [][RingNext]_vars

\* One Frame Link: its producer, its goroutines, the clock and the network.
LinkNext ==
  \/ Connect
  \/ WriteFrame
  \/ Tick
  \/ NetDrop
  \/ \E onCurrent \in BOOLEAN : ReadLoopError(onCurrent)
  \/ WriteLoopPull
  \/ \E h \in writeLoop.have : WriteLoopRequeue(h)
  \/ \E h \in writeLoop.have : WriteLoopSpill(h)
  \/ \E h \in writeLoop.have : WriteLoopSend(h)
  \/ \E h \in writeLoop.have : WriteLoopSendFail(h)
  \/ WriteLoopPingFail
  \/ \E d \in BagToSet(reconnectLoop.wait) : ReconnectSignal(d)
  \/ \E d \in BagToSet(reconnectLoop.retry) : ReconnectSuccess(d)
  \/ \E d \in BagToSet(reconnectLoop.retry) : ReconnectFailure(d)
  \/ \E dr \in BagToSet(drain) : DrainStart(dr)
  \/ \E dr \in BagToSet(drain) : DrainOpen(dr)
  \/ \E dr \in BagToSet(drain) : DrainSend(dr)
  \/ \E dr \in BagToSet(drain) : DrainAbort(dr)
  \/ \E dr \in BagToSet(drain) : DrainSendFail(dr)
  \/ \E dr \in BagToSet(drain) : DrainFinish(dr)

SpecLink == Init /\ [][LinkNext]_vars

\* The reconnect goroutines of a link that carries no frames, against a
\* collector that refuses many dials in a row.
BackoffNext ==
  \/ Connect
  \/ NetDrop
  \/ \E onCurrent \in BOOLEAN : ReadLoopError(onCurrent)
  \/ WriteLoopPingFail
  \/ \E d \in BagToSet(reconnectLoop.wait) : ReconnectSignal(d)
  \/ \E d \in BagToSet(reconnectLoop.retry) : ReconnectSuccess(d)
  \/ \E d \in BagToSet(reconnectLoop.retry) : BackoffFailure(d)

SpecBackoff == Init /\ [][BackoffNext]_vars

\* The calls a producer makes on one link, Connect, WriteFrame and Close,
\* with the goroutines of the one connection it dials.
SendNext ==
  \/ Connect
  \/ ConnectAgain
  \/ WriteFrame
  \/ WriteFrameRejected
  \/ Close
  \/ CloseCleanup
  \/ NetDrop
  \/ \E onCurrent \in BOOLEAN : ReadLoopError(onCurrent)
  \/ WriteLoopPull
  \/ \E h \in writeLoop.have : WriteLoopRequeue(h)
  \/ \E h \in writeLoop.have : WriteLoopSend(h)
  \/ \E h \in writeLoop.have : WriteLoopSendFail(h)
  \/ WriteLoopExit
  \/ \E d \in BagToSet(reconnectLoop.wait) : ReconnectSignal(d)
  \/ \E d \in BagToSet(reconnectLoop.wait) : ReconnectLoopExit(d, FALSE)
  \/ \E d \in BagToSet(reconnectLoop.retry) : ReconnectLoopExit(d, TRUE)

SpecSend == Init /\ [][SendNext]_vars

\* The link with the reconnect dial as a step of its own, during which the
\* reconnectLoop holds w.mu, and the producer's WriteFrame call as a call
\* and a return.
LockNext ==
  \/ Connect
  \/ WriteFrameCall
  \/ WriteFrame
  \/ WriteFrameRejected
  \/ NetDrop
  \/ \E onCurrent \in BOOLEAN : ReadLoopError(onCurrent)
  \/ WriteLoopPull
  \/ \E h \in writeLoop.have : WriteLoopRequeue(h)
  \/ \E h \in writeLoop.have : WriteLoopSend(h)
  \/ \E h \in writeLoop.have : WriteLoopSendFail(h)
  \/ \E d \in BagToSet(reconnectLoop.wait) : ReconnectSignal(d)
  \/ \E d \in BagToSet(reconnectLoop.retry) : ReconnectDial(d)
  \/ \E d \in BagToSet(reconnectLoop.retry) : ReconnectSuccess(d)
  \/ \E d \in BagToSet(reconnectLoop.retry) : ReconnectFailure(d)

SpecLock == Init /\ [][LockNext]_vars

\* The fan-out of one match to two subscriber sessions that pause, resume
\* and are written to at their own pace.
FanoutNext ==
  \/ \E s \in Subs, m \in MatchIDs : handleStreamConnection(s, m)
  \/ \E s \in Subs : unsubscribe(s)
  \/ \E m \in MatchIDs : BroadcastFrame(m, NextFrameIndex(m))
  \/ \E s \in Subs, cmd \in {"pause", "play"} : handleControl(s, cmd)
  \/ \E s \in Subs : writePump(s)

SpecFanout == Init /\ [][FanoutNext]_vars

\* One subscriber session that sends any of the inbound messages, well
\* formed or not, while frames are broadcast.
ReadNext ==
  \/ \E m \in MatchIDs, fps \in {NoFps, 10} :
        handleStreamConnectionFps("s1", m, fps)
  \/ unsubscribe("s1")
  \/ \E m \in MatchIDs : BroadcastFrame(m, NextFrameIndex(m))
  \/ \E msg \in Messages : readPump("s1", msg)
  \/ writePump("s1")

SpecRead == Init /\ [][ReadNext]_vars

\* Two subscriber sessions with their goroutines: the readPump, which
\* returns when the connection closes or errors and unsubscribes, and the
\* writePump, which returns on done or on a failed write.
PumpNext ==
  \/ \E s \in Subs, m \in MatchIDs : handleStreamConnection(s, m)
  \/ \E s \in Subs : unsubscribe(s)
  \/ \E m \in MatchIDs : BroadcastFrame(m, NextFrameIndex(m))
  \/ \E s \in Subs : writePump(s)
  \/ \E s \in Subs : writePumpDone(s)
  \/ \E s \in Subs : writePumpFail(s)

SpecPump == Init /\ [][PumpNext]_vars

\* The writePump goroutine is scheduled and its select takes the done case
\* once done is closed (lines 437-439); the read of a readPump whose
\* connection the writePump has closed fails (lines 433-434, 473-479).
PumpFairness ==
  \A s \in Subs :
    /\ WF_vars(writePumpDone(s))
    /\ WF_vars(s \notin writePumps /\ unsubscribe(s))

SpecPumpFair == SpecPump /\ PumpFairness

\* Three download requests for the echoreplay of one match, the conversion
\* goroutines and their timers.
ConvNext ==
  \/ \E r \in Reqs : serveEchoReplayStat(r)
  \/ \E r \in Reqs : getOrStartConversion(r)
  \/ \E j \in 1..MaxJobs, err \in {"nil", "error"} : runConversionResult(j, err)
  \/ \E j \in 1..MaxJobs : runConversionReturn(j)
  \/ \E j \in 1..MaxJobs : AfterFuncDelete(j)
  \/ \E r \in Reqs : serveEchoReplayDone(r)
  \/ \E r \in Reqs : serveEchoReplayCancelled(r)

SpecConv == Init /\ [][ConvNext]_vars

\* Three goroutines that call the hub operations in any interleaving of
\* their lock instructions.
LocksNext ==
  \/ \E c \in Callers, op \in HubOps : CallStart(c, op)
  \/ \E c \in Callers : CallStep(c)

SpecLocks == Init /\ [][LocksNext]_vars

\* Two subscriber sessions on a match that is closed, and broadcast to
\* before and after.
EndNext ==
  \/ \E s \in Subs, m \in MatchIDs : handleStreamConnection(s, m)
  \/ \E s \in Subs : unsubscribe(s)
  \/ \E m \in MatchIDs : BroadcastFrame(m, NextFrameIndex(m))
  \/ \E m \in MatchIDs : CloseMatch(m)
  \/ \E s \in Subs, cmd \in {"pause", "play"} : handleControl(s, cmd)
  \/ \E s \in Subs : writePump(s)

SpecEnd == Init /\ [][EndNext]_vars

\* WriteFrame, at most MaxCloseSends frames accepted
CloseWriteFrame ==
  /\ nsent < MaxCloseSends
  /\ WriteFrame

\* A link that carries one frame over a network that drops connections and
\* a collector that refuses a dial: the failures of its read, write and
\* ping and its reconnects.
RecoverNext ==
  \/ Connect
  \/ CloseWriteFrame
  \/ NetDrop
  \/ \E onCurrent \in BOOLEAN : ReadLoopError(onCurrent)
  \/ WriteLoopPull
  \/ \E h \in writeLoop.have : WriteLoopRequeue(h)
  \/ \E h \in writeLoop.have : WriteLoopSend(h)
  \/ \E h \in writeLoop.have : WriteLoopSendFail(h)
  \/ WriteLoopPingFail
  \/ \E d \in BagToSet(reconnectLoop.wait) : ReconnectSignal(d)
  \/ \E d \in BagToSet(reconnectLoop.retry) : ReconnectSuccess(d)
  \/ \E d \in BagToSet(reconnectLoop.retry) : ReconnectFailure(d)

SpecRecover == Init /\ [][RecoverNext]_vars

\* The reconnectLoop goroutines are scheduled: a waiting loop takes a
\* pending signal (lines 143-146), and a loop that retries goes on dialling
\* (lines 148-181) until a dial succeeds, which it eventually does.
RecoverFairness ==
  /\ WF_vars(\E d \in BagToSet(reconnectLoop.wait) : ReconnectSignal(d))
  /\ WF_vars(\E d \in BagToSet(reconnectLoop.retry) : ReconnectSuccess(d))

SpecRecoverFair == SpecRecover /\ RecoverFairness

\* a successful reconnect, at most MaxCloseConnects connections in all
CloseReconnect(d) ==
  /\ connects < MaxCloseConnects
  /\ ReconnectSuccess(d)

\* One Frame Link that is closed at any moment: its producer, its
\* goroutines, the clock, the network, Close and the exits of the
\* goroutines.  With MaxCloseConnects connections a drain finds a spill file
\* only when it starts late, and then finds the link disconnected.
CloseNext ==
  \/ Connect
  \/ CloseWriteFrame
  \/ Tick
  \/ NetDrop
  \/ Close
  \/ CloseCleanup
  \/ \E onCurrent \in BOOLEAN : ReadLoopError(onCurrent)
  \/ WriteLoopPull
  \/ \E h \in writeLoop.have : WriteLoopRequeue(h)
  \/ \E h \in writeLoop.have : WriteLoopSpill(h)
  \/ \E h \in writeLoop.have : WriteLoopSend(h)
  \/ \E h \in writeLoop.have : WriteLoopSendFail(h)
  \/ WriteLoopPingFail
  \/ WriteLoopExit
  \/ \E d \in BagToSet(reconnectLoop.wait) : ReconnectSignal(d)
  \/ \E d \in BagToSet(reconnectLoop.wait) : ReconnectLoopExit(d, FALSE)
  \/ \E d \in BagToSet(reconnectLoop.retry) : ReconnectLoopExit(d, TRUE)
  \/ \E d \in BagToSet(reconnectLoop.retry) : CloseReconnect(d)
  \/ \E dr \in BagToSet(drain) : DrainStart(dr)
  \/ \E dr \in BagToSet(drain) : DrainOpen(dr)
  \/ \E dr \in BagToSet(drain) : DrainAbort(dr)
  \/ \E dr \in BagToSet(drain) : DrainCancelled(dr)

SpecClose == Init /\ [][CloseNext]_vars

\* Every goroutine that can take a step takes it in the end; a select with
\* several ready cases picks among them at random, so a writeLoop whose
\* context is cancelled is not kept from its ctx.Done case for ever by the
\* frames it can pull.
CloseFairness ==
  /\ WF_vars(CloseCleanup)
  /\ WF_vars(\E onCurrent \in BOOLEAN : ReadLoopError(onCurrent))
  /\ WF_vars(\E h \in writeLoop.have :
               \/ WriteLoopRequeue(h) \/ WriteLoopSpill(h)
               \/ WriteLoopSend(h) \/ WriteLoopSendFail(h))
  /\ SF_vars(WriteLoopExit)
  /\ WF_vars(\E d \in BagToSet(reconnectLoop.wait) :
               ReconnectLoopExit(d, FALSE))
  /\ WF_vars(\E d \in BagToSet(reconnectLoop.retry) :
               ReconnectLoopExit(d, TRUE))
  /\ WF_vars(\E dr \in BagToSet(drain) :
               \/ DrainStart(dr) \/ DrainOpen(dr) \/ DrainCancelled(dr))

SpecCloseFair == SpecClose /\ CloseFairness

\* One subscriber session that joins while the first frames of its match
\* are broadcast, BroadcastFrame's lookup and its creation of the stream
\* being two steps.
RaceNext ==
  \/ \E m \in MatchIDs : handleStreamConnection("s1", m)
  \/ unsubscribe("s1")
  \/ \E m \in MatchIDs : BroadcastLookup(m, NextFrameIndex(m))
  \/ BroadcastCreate
  \/ \E m \in MatchIDs : BroadcastFrame(m, NextFrameIndex(m))
  \/ \E cmd \in {"pause", "play"} : handleControl("s1", cmd)
  \/ writePump("s1")

SpecRace == Init /\ [][RaceNext]_vars

\* Sessions that connect with any fps query parameter and send framerate
\* commands while frames are broadcast.
RateNext ==
  \/ \E s \in Subs, m \in MatchIDs, fps \in FpsParams :
        handleStreamConnectionFps(s, m, fps)
  \/ \E s \in Subs : unsubscribe(s)
  \/ \E s \in Subs, rate \in Rates : handleControlFrameRate(s, rate)
  \/ \E m \in MatchIDs : BroadcastFrame(m, NextFrameIndex(m))
  \/ \E s \in Subs : writePump(s)

SpecRate == Init /\ [][RateNext]_vars

\* One subscriber session and two inbound connections that deliver frames
\* of its match: a BroadcastFrame call stores its frame and pushes it in two
\* steps, and another call may run in between.
ConcurrentNext ==
  \/ \E m \in MatchIDs : handleStreamConnection("s1", m)
  \/ unsubscribe("s1")
  \/ \E m \in MatchIDs : BroadcastStore(m, NextFrameIndex(m))
  \/ \E p \in pushing : BroadcastPush(p)
  \/ writePump("s1")

SpecConcurrent == Init /\ [][ConcurrentNext]_vars

(* ================================ claims =============================== *)
Last(q) == q[Len(q)]
\* the last n elements of q
LastN(q, n) == SubSeq(q, Len(q) - n + 1, Len(q))
InRing(m, idx) == \E k \in 1..Len(frames[m]) : frames[m][k].frameIndex = idx

\* C1 (as claimed): a Seek for a frame index that is in the ring pushes
\* exactly the frame with that index to the session's queue.  Stated for the
\* best case only: frame indices 1, 2, 3, ... in order, and a queue with room.
C1_SeekDeliversRequestedFrame ==
  (last.op = "seek" /\ last.room /\ InRing(subMatch[last.sub], last.arg))
    => \E k \in 1..Len(frames[subMatch[last.sub]]) :
         /\ frames[subMatch[last.sub]][k].frameIndex = last.arg
         /\ last.pushed = <<FrameMsg(frames[subMatch[last.sub]][k], "seek")>>

\* C2 (as claimed): the keys of the index map are exactly the frame indices
\* in the ring, and each key's slot holds the frame with that index.
C2_IndexMapConsistent ==
  \A m \in MatchIDs :
    /\ DOMAIN frameIndex[m] = {frames[m][k].frameIndex : k \in 1..Len(frames[m])}
    /\ \A i \in DOMAIN frameIndex[m] :
         /\ frameIndex[m][i] < Len(frames[m])
         /\ At(frames[m], frameIndex[m][i]).frameIndex = i

C9_NoFrameWhilePaused ==
  /\ last.op = "broadcast" => \A s \in last.pushed : ~paused[s]
  /\ (last.op = "seek" /\ paused[last.sub]) => last.pushed = <<>>
  /\ (last.op = "write" /\ paused[last.sub]) => last.msg.type # "frame"

FirstPos(q, f) ==
  IF \E k \in 1..Len(q) : q[k] = f
  THEN CHOOSE k \in 1..Len(q) : q[k] = f /\ \A j \in 1..(k - 1) : q[j] # f
  ELSE 0
Elems(q) == {q[k] : k \in 1..Len(q)}

\* C4 (as claimed): frames accepted by WriteFrame while the link was
\* disconnected and within the first diskBufferThreshold seconds of that
\* disconnection reach the collector in the order in which they were accepted.
\* Stated for the latest disconnection, once the link has reconnected.
C4_WindowFramesInOrder ==
  connected =>
    \A i, j \in 1..Len(received) :
      (/\ i < j
       /\ sentTag[received[i]] = "window"
       /\ sentTag[received[j]] = "window")
        => received[i] <= received[j]

\* C5 (as claimed): as long as the writer has never used its disk buffer, the
\* collector has received the frames in the order in which WriteFrame
\* accepted them, whatever disconnects and reconnects happened.
C5_MemoryModeInOrder ==
  ~everDisk =>
    \A i, j \in 1..Len(received) : i < j => received[i] <= received[j]

\* C6 (as claimed): after a reconnect that found entries in the disk buffer,
\* and while nothing has failed since, a frame accepted after the reconnect
\* reaches the collector only after every spilled entry has, and the spilled
\* entries reach it in the order in which they were appended.
C6_DrainBeforeForwarding ==
  (/\ spillAtReconnect.epoch # 0
   /\ connects = spillAtReconnect.epoch
   /\ connected /\ connAlive)
    => LET spilled == spillAtReconnect.entries IN
       /\ \A k \in 1..Len(received) :
            received[k] > spillAtReconnect.sentBefore
              => \A e \in Elems(spilled) :
                   FirstPos(received, e) \in 1..(k - 1)
       /\ \A a, b \in 1..Len(spilled) :
            (a < b /\ FirstPos(received, spilled[b]) # 0)
              => FirstPos(received, spilled[a])
                   \in 1..FirstPos(received, spilled[b])

\* C7 (as claimed): in a disconnection that has lasted longer than
\* diskBufferThreshold, no frame that WriteFrame accepted during the first
\* diskBufferThreshold seconds of it is in the disk buffer (those stay in
\* memory), and the frames in the disk buffer are in the order in which they
\* were accepted.
C7_SpilledAreLateFrames ==
  (~connected /\ sinceDown > diskBufferThreshold /\ diskBufferPath) =>
    /\ \A k \in 1..Len(diskFile) : sentTag[diskFile[k]] # "window"
    /\ \A i, j \in 1..Len(diskFile) : i < j => diskFile[i] < diskFile[j]

\* the frames a writeLoop holds, and those a drain has still to send
HeldByWriteLoop == {h.frame : h \in writeLoop.have}
HeldByDrain == UNION {Elems(dr.lines) : dr \in BagToSet(drain)}

\* C8 (as claimed), its safety part: while the link is not closed, a frame
\* that WriteFrame accepted and the collector has not received is still
\* held by the link (in the channel, by a writeLoop, in the disk buffer or by
\* a drain), for otherwise it can never be transmitted.
C8_AcceptedFrameNotLost ==
  ~stopped =>
    \A f \in 1..nsent :
      \/ f \in Elems(received)
      \/ f \in Elems(outgoingCh)
      \/ f \in HeldByWriteLoop
      \/ diskBufferPath /\ f \in Elems(diskFile)
      \/ f \in HeldByDrain

\* C11: a reconnectLoop starts every round of attempts with the delay
\* initialReconnectDelay (a loop that waits for the signal, freshly started
\* or back from a successful reconnect, has that delay), a failed dial turns
\* the delay d of the loop that dialled into min(d * reconnectBackoffMult,
\* maxReconnectDelay), and no delay exceeds maxReconnectDelay.
C11_BackoffDelay ==
  [][/\ failedDials' # failedDials =>
          \E d \in BagToSet(reconnectLoop.retry) :
            reconnectLoop'.retry =
              BagAdd(BagRemove(reconnectLoop.retry, d),
                     Min(d * reconnectBackoffMult, maxReconnectDelay))
     /\ \A d \in BagToSet(reconnectLoop'.wait) : d = initialReconnectDelay
     /\ \A d \in BagToSet(reconnectLoop'.retry) :
          d \in initialReconnectDelay..maxReconnectDelay]_vars

\* C11 witness: the first round of attempts failed often enough to reach
\* and stay at the maximum, then succeeded; the loop now retrying has failed
\* once since and waits twice the initial delay
C11_Witness ==
  /\ connects = 2
  /\ failedDials = MaxBackoffDials
  /\ reconnectLoop.retry =
       BagOf(initialReconnectDelay * reconnectBackoffMult, 1)

\* C12: a WriteFrame call on a stopped writer returns the stopped error and
\* enqueues nothing; on an open writer whose queue holds memoryBufferSize
\* frames it returns the queue-full error and leaves the queue as it was;
\* otherwise it appends the frame at the tail of the queue and succeeds.
C12_WriteFrameOutcome ==
  [][(nsent' # nsent \/ sendResult' # sendResult) =>
       IF stopped
       THEN /\ sendResult' = "stopped"
            /\ outgoingCh' = outgoingCh /\ nsent' = nsent
       ELSE IF Len(outgoingCh) >= memoryBufferSize
       THEN /\ sendResult' = "full"
            /\ outgoingCh' = outgoingCh /\ nsent' = nsent
       ELSE /\ sendResult' = "ok"
            /\ outgoingCh' = Append(outgoingCh, nsent + 1)
            /\ nsent' = nsent + 1]_vars

\* a call was rejected after Close although the queue had room
C12_Witness ==
  /\ stopped
  /\ sendResult = "stopped"
  /\ Len(outgoingCh) < memoryBufferSize
  /\ nsent > 0

\* a call was rejected because the queue of an open writer was full
C12_WitnessFull ==
  /\ ~stopped
  /\ sendResult = "full"
  /\ Len(outgoingCh) = memoryBufferSize
\* C13: WriteFrame never waits for another task: the producer is never
\* inside WriteFrame, at the w.mu.Lock of IsStopped, while a reconnectLoop
\* holds w.mu across its dial.
C13_WriteFrameNeverWaitsForDial ==
  ~(inWriteFrame /\ mu.holder = "reconnectLoop")
C15_OneTaskOfEachKind ==
  /\ readLoop.cur + readLoop.old <= 1
  /\ writeLoop.idle + Cardinality(writeLoop.have) <= 1
  /\ BagCardinality(reconnectLoop.wait)
       + BagCardinality(reconnectLoop.retry) <= 1
\* C16: a Connect call made while the link is connected returns success
\* and changes nothing: no dial, the same connection, no new goroutine.
C16_ConnectWhileConnected ==
  [][(connected /\ connectResult' # connectResult) =>
       /\ connectResult' = "already"
       /\ UNCHANGED <<linkVars, cleanups, sendResult, lockVars, netVars,
                      linkHist>>]_vars

\* Connect was called on a connected link
C16_Witness ==
  /\ connectResult = "already"
  /\ connected
  /\ connects = 1
  /\ readLoop.cur + readLoop.old = 1
\* the goroutines of the link have all returned
NoTaskLeft ==
  /\ readLoop.cur + readLoop.old = 0
  /\ writeLoop.idle + Cardinality(writeLoop.have) = 0
  /\ BagCardinality(reconnectLoop.wait)
       + BagCardinality(reconnectLoop.retry) = 0
  /\ drain = EmptyBag
  /\ cleanups = 0

\* there is no spill file
NoSpillFile == ~diskBufferPath /\ diskFile = <<>> /\ diskBufferFile = "nil"

\* C17: after Close every goroutine of the link returns in the end, and
\* from some moment on there is no spill file; a later Close changes
\* nothing (the writer stays stopped and no further cleanup is started).
C17_CloseTerminates ==
  /\ [](stopped => <>[](NoTaskLeft /\ NoSpillFile))
  /\ [][stopped => stopped' /\ cleanups' <= cleanups]_vars

\* the writer was closed while a spill file held a frame and a
\* writeLoop and a readLoop were running; all is gone now
C17_Witness ==
  /\ stopped
  /\ NoTaskLeft /\ NoSpillFile
  /\ everDisk
  /\ connects >= 2
\* C18: while the writer is not stopped, the spill file is removed and
\* usingDiskBuffer reset only when every entry of the file has been
\* transmitted to the collector.
C18_SpillRemovedOnlyWhenDrained ==
  [][(~stopped /\ ~stopped'
        /\ ((diskBufferPath /\ ~diskBufferPath')
            \/ (usingDiskBuffer /\ ~usingDiskBuffer')))
       => \A f \in Elems(diskFile) : f \in Elems(received)]_vars
\* no drainDiskBuffer goroutine has the spill file open or is about to
NoDrainReading == \A dr \in BagToSet(drain) : dr.pc = "start"

\* C19: a drain that stops because the connection is lost or a write fails
\* removes no entry of the spill file and leaves the link disconnected; the
\* file it leaves (its write handle closed, no drain reading it) keeps its
\* entries while the writer is open, so that the drain of the next reconnect
\* finds them all.
C19_FailedDrainKeepsSpill ==
  [][/\ \A dr \in BagToSet(drain) :
          (/\ ~stopped
           /\ dr.pc = "scan" /\ dr.lines # <<>>
           /\ drain' = BagRemove(drain, dr))
          => diskFile' = diskFile /\ ~connected'
     /\ (/\ ~stopped /\ ~stopped'
         /\ diskBufferFile = "closed" /\ diskFile # <<>>
         /\ NoDrainReading)
          => diskFile' = diskFile]_vars
\* C20: from its subscribe until its unsubscribe a session is a member of
\* the subscriber set of the stream registered under its matchID, and every
\* frame broadcast for that matchID meanwhile is pushed to it when it is
\* not paused and its queue has room.
C20_SubscriberStaysRegistered ==
  [][\A s \in Subs :
       subStatus[s] = "live" =>
         /\ s \in subscribers[subMatch[s]]
         /\ (/\ broadcasts'[subMatch[s]] # broadcasts[subMatch[s]]
             /\ ~paused[s] /\ Len(send[s]) < SendCap)
              => send'[s] =
                   Append(send[s],
                          FrameMsg(Last(broadcasts'[subMatch[s]]), "live"))]_vars
\* C21: the live frames put into a subscriber's send channel follow the
\* order in which they were inserted into the ring buffer: each one was
\* inserted later than the one put into the channel before it.
C21_QueueInRingOrder ==
  [][\A s \in Subs : pushedLive'[s] >= pushedLive[s]]_vars
\* C22: in every reachable state the frameRate of each subscriber session is
\* at least 1 and at most the hub's configured maximum frame rate, whatever
\* fps query parameter (or none) it connected with and whatever framerate
\* commands it sent.
C22_FrameRateInRange ==
  \A s \in Subs :
    subStatus[s] = "live" => (frameRate[s] >= 1 /\ frameRate[s] <= maxFrameRate)

\* C23: a framerate command with a rate above the hub's maximum sets the
\* session's frameRate to the maximum; one with a rate within 1..maximum
\* sets it to that rate.
C23_FrameRateClamped ==
  [][last'.op = "framerate" /\ last' # last =>
       LET s == last'.sub
           rate == last'.arg IN
       /\ rate > maxFrameRate => frameRate'[s] = maxFrameRate
       /\ (rate >= 1 /\ rate <= maxFrameRate) => frameRate'[s] = rate]_vars
\* C24: a seek for a frame index that is not in the ring buffer (evicted,
\* not yet arrived, unknown stream), or a seek that carries no frame index
\* but only a time (index 0 here), pushes nothing to the session's send
\* channel, no error message either, and changes no hub or session state.
C24_SeekAbsentIsNoOp ==
  [][(/\ last'.op = "seek"
      /\ last' # last
      /\ \/ last'.arg = 0
         \/ subMatch[last'.sub] \notin matches
         \/ ~InRing(subMatch[last'.sub], last'.arg))
     => UNCHANGED <<hubVars, broadcasts, pausedSeen, pushedLive, hubCalls>>]_vars

\* a seek for the index of an evicted frame found room in the send channel
\* and pushed nothing
C24_Witness ==
  /\ last.op = "seek"
  /\ last.arg > 0
  /\ last.room
  /\ last.pushed = <<>>
  /\ ~InRing("m1", last.arg)
  /\ \E k \in 1..Len(broadcasts["m1"]) :
       broadcasts["m1"][k].frameIndex = last.arg
\* C25: after a subscriber is registered for a match, the hub sends it a
\* subscribed message (match_id, frame_count, is_live): while the session
\* lasts, such a message is eventually in its send channel or written to
\* its connection.
C25_SubscribedIsSent ==
  [](subStatus["s1"] = "live" =>
       <>(\/ subStatus["s1"] # "live"
          \/ \E k \in 1..Len(send["s1"]) : send["s1"][k].type = "subscribed"
          \/ (last.op = "write" /\ last.sub = "s1"
               /\ last.msg.type = "subscribed")))
Unhandled(msg) ==
  \/ ~msg.json
  \/ msg.type \in {"control", "seek"} /\ ~msg.ok
  \/ msg.type \notin {"control", "seek"}
  \/ msg.type = "control" /\ msg.command \notin {"pause", "play", "framerate"}

C29_HealthyConnectionIsKept ==
  [][(connected /\ conn # 0 /\ connAlive /\ ~stopped /\ ~stopped')
       => (connected' /\ conn' = conn)]_vars
\* a readLoop or a writeLoop of a writer that is not stopped returns, which
\* it does only from its failure handler
LoopFailed ==
  /\ ~stopped
  /\ \/ readLoop'.cur + readLoop'.old < readLoop.cur + readLoop.old
     \/ writeLoop'.idle + Cardinality(writeLoop'.have)
          < writeLoop.idle + Cardinality(writeLoop.have)

\* C30: whenever a read, write or keepalive-ping failure occurs while the
\* link is Connected, the link becomes Disconnected and the reconnect task
\* is signalled; and while the link is not closed and dials eventually
\* succeed, a link that is disconnected becomes Connected again (up to the
\* MaxConnects connections of the model).
C30_FailureLeadsToReconnect ==
  /\ [][LoopFailed => (~connected' /\ reconnectCh')]_vars
  /\ ((connects > 0 /\ ~connected /\ ~stopped)
        ~> (connected \/ stopped \/ connects = MaxConnects))

\* the connection was dropped, the failure marked the link disconnected, a
\* dial was refused and the next reconnected the link
C30_Witness ==
  /\ connects = 2
  /\ drops = 1
  /\ failedDials = 1
  /\ connected /\ connAlive
  /\ ~reconnectCh
\* C31: while the link is disconnected, a frame pulled from the outgoing
\* channel goes to the spill file only if the current disconnection has
\* lasted longer than diskBufferThreshold, and back into the channel
\* otherwise, whichever handler marked the link disconnected and whatever
\* disconnections came before.
C31_SpillOnlyPastThreshold ==
  [][\A h \in writeLoop'.have \ writeLoop.have :
       h.mode = "disk" => (~connected /\ sinceDown > diskBufferThreshold)]_vars
\* C32: once a stream is registered under a matchID it is never replaced
\* by another: it stays registered, its ring only changes by the storing
\* of the frame just broadcast, and a member leaves its subscriber set only
\* by its own unsubscribe, so no stored frame and no subscriber is left in
\* an orphaned stream.
C32_StreamNeverReplaced ==
  [][\A m \in matches :
       /\ m \in matches'
       /\ frames'[m] # frames[m] =>
            /\ broadcasts'[m] # broadcasts[m]
            /\ frames'[m] = StoreRing(frames[m], Last(broadcasts'[m]))
       /\ \A s \in subscribers[m] \ subscribers'[m] :
            subStatus[s] = "live" /\ subStatus'[s] = "gone"]_vars
\* the writeLoop goroutines that have read w.conn, found the link connected
\* and are at their write to that connection, which is still the current one
WritersAtCurrent == {h \in writeLoop.have : h.mode = "send" /\ h.cur}

\* C33: at most one task writes to the connection at a time: no two
\* writeLoop goroutines are at their write to the current connection
\* together, and the drain task writes a line to it only while no writeLoop
\* is at its write.
C33_OneWriterAtATime ==
  [][/\ Cardinality(WritersAtCurrent) <= 1
     /\ (received' # received /\ drain' # drain) => WritersAtCurrent = {}]_vars
\* C34: after a drain has started and stopped with the spill file kept
\* (its write handle closed by the drain, no drain reading it), a frame
\* that a writeLoop pulled past the threshold during the disconnection that
\* follows is appended to the spill file after the entries it holds, not
\* dropped.
C34_SpillAfterAbortedDrain ==
  [][\A h \in writeLoop.have :
       (/\ h.mode = "disk"
        /\ \A g \in writeLoop'.have : g.frame # h.frame
        /\ ~stopped /\ ~connected
        /\ diskBufferFile = "closed" /\ diskBufferPath /\ diskFile # <<>>
        /\ NoDrainReading)
       => diskFile' = Append(diskFile, h.frame)]_vars
LockRank(lock) ==
  CASE lock = "h.mu" -> 1 [] lock = "stream.mu" -> 2 [] lock = "sub.mu" -> 3

HubLocks == {"h.mu", "stream.mu", "sub.mu"}

\* C36: no interleaving of subscribe, unsubscribe, BroadcastFrame,
\* CloseMatch, seek, control and stream listing deadlocks: while some
\* caller is inside an operation some caller can go on; a caller that
\* takes a lock holds only locks that come before it in the order registry
\* lock, stream lock, subscriber lock; and a push made with a lock held
\* does not wait.
C36_NoDeadlock ==
  /\ (\E c \in Callers : InCall(c))
       => \E c \in Callers : InCall(c) /\ CanStep(c)
  /\ \A c \in Callers :
       (InCall(c) /\ Instr(c)[1] \in {"Lock", "RLock"}) =>
         \A lock \in HubLocks :
           (HoldsW(c, lock) \/ HoldsR(c, lock))
             => LockRank(lock) < LockRank(Instr(c)[2])
  /\ \A c \in Callers :
       (InCall(c) /\ Instr(c)[1] = "push") => CanStep(c)

\* subscribe holds the registry lock and waits for the stream lock, which
\* a BroadcastFrame holds, while a listing waits for the registry lock
C36_Witness ==
  /\ lockCalls["c1"] = [op |-> "subscribe", at |-> 2]
  /\ lockCalls["c2"] = [op |-> "broadcast", at |-> 4]
  /\ lockCalls["c3"] = [op |-> "list", at |-> 1]
  /\ ~CanStep("c1") /\ ~CanStep("c3") /\ CanStep("c2")

\* C37: after any sequence of broadcasts, with evictions and repeated
\* frame indices, every position recorded in the index map of a stream is
\* a position of its ring (0 .. len-1), so the frames[pos] of a seek is
\* inside the ring.
C37_IndexSlotsInsideRing ==
  \A m \in matches : \A i \in DOMAIN frameIndex[m] :
    frameIndex[m][i] \in 0..(Len(frames[m]) - 1)

\* after an eviction the map holds a position whose frame has another
\* frame index, and a seek of that index has pushed the frame found there
C37_Witness ==
  /\ "m1" \in matches
  /\ Len(broadcasts["m1"]) > maxFrames
  /\ Len(frames["m1"]) = maxFrames
  /\ last.op = "seek"
  /\ last.arg \in DOMAIN frameIndex["m1"]
  /\ At(frames["m1"], frameIndex["m1"][last.arg]).frameIndex # last.arg
  /\ last.pushed # <<>>

Converting == {j \in 1..Len(jobs) : jobs[j].state # "done"}

====
